---- MODULE Spec2Model ----
(***************************************************************************)
(* Time-frequency decomposition core of mne-python                          *)
(* (mne/time_frequency/tfr.py, mne/time_frequency/_stockwell.py).           *)
(*                                                                          *)
(* The module holds several state machines over disjoint groups of          *)
(* variables; each specification runs one of them and leaves the other      *)
(* groups at their initial value:                                           *)
(*   Spec      the AverageTFR container: construction, + - += -=, copy,     *)
(*             apply_baseline, over a heap of numpy arrays                  *)
(*   SpecArith the arithmetic operators of Spec alone                       *)
(*   SpecCtor  AverageTFR.__init__ alone, over well- and ill-shaped inputs  *)
(*   SpecIO    write_tfrs followed by read_tfrs                              *)
(*   SpecPar   the fork-join map over channels of the three transforms       *)
(*   SpecCoh   the reduction of per-trial coefficients to power and coherence *)
(*   SpecSt    the input check of the Stockwell transform                     *)
(*   SpecCwt   the two convolution engines as generators over trials          *)
(*   SpecFrq   the frequency selection of the Stockwell transform             *)
(*   SpecWav   the Morlet and DPSS wavelet builders                           *)
(*   SpecEnt   the entry points tfr_morlet, tfr_multitaper, tfr_stockwell     *)
(***************************************************************************)
EXTENDS Integers, Sequences, FiniteSets, TLC

VARIABLES
    heap,      \* Seq of heap cells: ndarrays [shape, flat] and info dicts [chs]
    objs,      \* Seq of AverageTFR instances: references into heap + scalars
    last,      \* the last call made on the containers and how it ended
    prov,      \* ghost, per container: operands of the + / += that made its data
    nops,      \* number of calls made after construction (bounded by MaxOps)
    ctorIn,    \* SpecCtor: the arguments of the last AverageTFR(...) call
    ctorOut,   \* SpecCtor: its outcome
    ioArg,     \* SpecIO: what write_tfrs was given: one container or a list
    file,      \* SpecIO: the content of the -tfr.h5 file
    ioOut,     \* SpecIO: the outcome of the last read_tfrs
    parIn,     \* SpecPar: the arguments of the orchestration call
    pc,        \* SpecPar: where the orchestrating caller stands
    round,     \* SpecPar: the taper iteration m (1 for Morlet and Stockwell)
    pending,   \* SpecPar: channels whose task is not yet dispatched
    running,   \* SpecPar: channels whose task a worker is executing
    ret,       \* SpecPar: per channel, the value its task returned
    psd,       \* SpecPar: the preallocated power array, one slot per channel
    itc,       \* SpecPar: the preallocated coherence array
    finished,  \* SpecPar: ghost, the order in which this round's tasks completed
    parOut,    \* SpecPar: what the entry point gave its caller
    cohIn,     \* SpecCoh: the coefficient arrays of one channel, and decim
    cohPc,     \* SpecCoh: where the reduction stands
    cohK,      \* SpecCoh: number of per-trial arrays the loop has consumed
    accPsd,    \* SpecCoh: the power accumulator psd
    accPlf,    \* SpecCoh: the complex phase accumulator plf
    cohOut,    \* SpecCoh: the (psd, plf) pair the reduction returned
    stIn,      \* SpecSt: signal length, n_fft and decim of a Stockwell call
    stPc,      \* SpecSt: where the Stockwell call stands
    stOut,     \* SpecSt: the outcome of _check_input_st and the output length
    cwtIn,     \* SpecCwt: engine, number of trials, n_times and kernel lengths
    cwtPc,     \* SpecCwt: where the generator stands
    cwtK,      \* SpecCwt: number of trials fully processed
    cwtI,      \* SpecCwt: kernels processed for the current trial
    cwtYielded,\* SpecCwt: number of per-trial arrays yielded to the consumer
    cwtExc,    \* SpecCwt: the exception the generator raised, if any
    cwtFsize,  \* SpecCwt: the FFT length _cwt_fft chose (0 before)
    cwtTfr,    \* SpecCwt: the rows of tfr filled for the current trial
    cwtOut,    \* SpecCwt: the arrays yielded so far, in order
    frqIn,     \* SpecFrq: n_fft_, fmin and fmax of a Stockwell call
    frqPc,     \* SpecFrq: where the frequency selection stands
    frqOut,    \* SpecFrq: start_f, stop_f, the axis, the windows, n_freq
    wavIn,     \* SpecWav: the arguments of morlet / _dpss_wavelet
    wavPc,     \* SpecWav: where the builder stands
    wavOut,    \* SpecWav: the bank built so far, or the exception
    entIn,     \* SpecEnt: the arguments of a tfr_* entry point
    entPc,     \* SpecEnt: where the entry point stands
    entOut,    \* SpecEnt: what it returned or raised, and what it had done
    entHeap,   \* SpecEnt: the objects the returned containers refer to
    entRefs,   \* SpecEnt: for each returned container, the object of each field
    entMut     \* SpecEnt: the in-place change the caller made after the return

tfrVars == <<heap, objs, last, prov, nops>>
ctorVars == <<ctorIn, ctorOut>>
ioVars == <<ioArg, file, ioOut>>
parVars == <<parIn, pc, round, pending, running, ret, psd, itc, finished, parOut>>
cohVars == <<cohIn, cohPc, cohK, accPsd, accPlf, cohOut>>
stVars == <<stIn, stPc, stOut>>
cwtVars == <<cwtIn, cwtPc, cwtK, cwtI, cwtYielded, cwtExc, cwtFsize, cwtTfr,
            cwtOut>>
frqVars == <<frqIn, frqPc, frqOut>>
wavVars == <<wavIn, wavPc, wavOut>>
entVars == <<entIn, entPc, entOut, entHeap, entRefs, entMut>>
vars == <<heap, objs, last, prov, nops, ctorIn, ctorOut, ioArg, file, ioOut,
          parIn, pc, round, pending, running, ret, psd, itc, finished, parOut,
          cohIn, cohPc, cohK, accPsd, accPlf, cohOut, stIn, stPc, stOut,
          cwtIn, cwtPc, cwtK, cwtI, cwtYielded, cwtExc, cwtFsize, cwtTfr,
          cwtOut, frqIn, frqPc, frqOut,
          wavIn, wavPc, wavOut, entIn, entPc, entOut, entHeap, entRefs, entMut>>

----------------------------------------------------------------------------
(* Bounds of the model *)

MaxOps == 2       \* calls of + - += -= copy apply_baseline made on the containers
MaxList == 2      \* containers in a list given to write_tfrs
MaxChannels == 3  \* channels picked by an orchestration call
MaxJobs == 2      \* n_jobs, the worker count
MaxTaps == 2      \* DPSS tapers of a multitaper call
MaxTrials == 2    \* trials (epochs) reduced for one channel
MaxSamples == 6   \* n_times of a signal given to the Stockwell transform
MaxFft == 9       \* the n_fft a Stockwell call may request
MaxSignals == 2   \* trials given to a convolution engine
MaxKernel == 3    \* length of a kernel, and of the signal, given to an engine
MaxBins == 8      \* the FFT length n_fft_ of a Stockwell frequency selection
MaxFreqs == 2     \* frequencies given to a wavelet builder
MaxTb2 == 8       \* twice the largest time_bandwidth given to _dpss_wavelet
MaxEnergy == 3    \* squared norm of a kernel before it is normalised

----------------------------------------------------------------------------
(* numpy arrays: a shape and the elements in row-major (C) order *)

RECURSIVE Prod(_)
Prod(s) == IF s = <<>> THEN 1 ELSE Head(s) * Prod(Tail(s))

NdArray(shape, flat) == [shape |-> shape, flat |-> flat]

\* a 1-D array holding the elements of the sequence s
Arr1(s) == NdArray(<<Len(s)>>, s)

\* an array of the given shape filled seed, seed+1, ...
Ramp(shape, seed) ==
    NdArray(shape, [i \in 1..Prod(shape) |-> seed + i - 1])

ndim(a) == Len(a.shape)

\* position (1-based) in a.flat of the element at 3-D index <<c, f, t>>
Ravel3(shape, idx) ==
    (idx[1] - 1) * shape[2] * shape[3] + (idx[2] - 1) * shape[3] + idx[3]

\* 3-D index of the element at position i of the flat order
Unravel3(shape, i) ==
    <<((i - 1) \div (shape[2] * shape[3])) + 1,
      (((i - 1) \div shape[3]) % shape[2]) + 1,
      ((i - 1) % shape[3]) + 1>>

\* numpy broadcasting of `other` INTO an existing output of shape `out`
\* (in-place operators never change the shape of their left operand)
BroadcastableInto(out, other) ==
    /\ Len(out) = Len(other)
    /\ \A d \in 1..Len(out) : other[d] = out[d] \/ other[d] = 1

\* index in `other` feeding output index idx under broadcasting
BIndex(other, idx) == [d \in 1..Len(idx) |-> IF other[d] = 1 THEN 1 ELSE idx[d]]

\* mutant of InPlaceComb: a.data = a.data (+|-) b.data, a new array of the
\* broadcast shape bound in place of the left operand
InPlaceComb_rebind(a, b, sign) ==
    IF \E d \in 1..3 : a.shape[d] # b.shape[d] /\ a.shape[d] # 1 /\ b.shape[d] # 1
    THEN [exc |-> "ValueError", val |-> a]
    ELSE LET shape == [d \in 1..3 |-> IF a.shape[d] = 1 THEN b.shape[d]
                                                        ELSE a.shape[d]]
         IN  [exc |-> "none",
              val |-> NdArray(shape,
                       [i \in 1..Prod(shape) |->
                          a.flat[Ravel3(a.shape, BIndex(a.shape, Unravel3(shape, i)))]
                          + sign * b.flat[Ravel3(b.shape,
                                            BIndex(b.shape, Unravel3(shape, i)))]])]

\* a.data (+|-)= b.data on 3-D arrays; sign is 1 or -1.  [exc, val]
InPlaceComb(a, b, sign) ==
    IF ~BroadcastableInto(a.shape, b.shape)
    THEN [exc |-> "ValueError", val |-> a]
    ELSE [exc |-> "none",
          val |-> NdArray(a.shape,
                   [i \in 1..Prod(a.shape) |->
                      a.flat[i] + sign * b.flat[Ravel3(b.shape,
                                            BIndex(b.shape, Unravel3(a.shape, i)))]])]

\* np.all(x == y) on 1-D arrays.  Equal lengths compare elementwise, a
\* length-1 operand is broadcast against the other, and otherwise the shapes
\* cannot be compared: "mismatch" (False in legacy numpy, ValueError later).
NpAllEqual(x, y) ==
    IF Len(x.flat) = Len(y.flat)
    THEN IF \A i \in 1..Len(x.flat) : x.flat[i] = y.flat[i] THEN "True" ELSE "False"
    ELSE IF Len(x.flat) = 1
    THEN IF \A i \in 1..Len(y.flat) : y.flat[i] = x.flat[1] THEN "True" ELSE "False"
    ELSE IF Len(y.flat) = 1
    THEN IF \A i \in 1..Len(x.flat) : x.flat[i] = y.flat[1] THEN "True" ELSE "False"
    ELSE "mismatch"

----------------------------------------------------------------------------
(* AverageTFR.__init__ *)

NoFields == [info |-> <<>>, data |-> <<>>, times |-> <<>>, freqs |-> <<>>,
             nave |-> 0, comment |-> "None", method |-> "None"]

\* mutant of AverageTFR_init: the time axis is not checked
AverageTFR_init_notimes(info, data, times, freqs, nave, comment, method) ==
    IF ndim(data) # 3
    THEN [exc |-> "ValueError", fields |-> NoFields]
    ELSE IF data.shape[1] # Len(info.chs)
    THEN [exc |-> "ValueError", fields |-> NoFields]
    ELSE IF data.shape[2] # Len(freqs.flat)
    THEN [exc |-> "ValueError", fields |-> NoFields]
    ELSE [exc |-> "none",
          fields |-> [info |-> info, data |-> data, times |-> times,
                      freqs |-> freqs, nave |-> nave, comment |-> comment,
                      method |-> method]]

\* The constructor on argument VALUES: [exc, fields].  info is [chs |-> ..],
\* data an NdArray, times and freqs 1-D NdArrays.
AverageTFR_init(info, data, times, freqs, nave, comment, method) ==
    IF ndim(data) # 3
    THEN [exc |-> "ValueError", fields |-> NoFields]
    ELSE IF data.shape[1] # Len(info.chs)
    THEN [exc |-> "ValueError", fields |-> NoFields]
    ELSE IF data.shape[2] # Len(freqs.flat)
    THEN [exc |-> "ValueError", fields |-> NoFields]
    ELSE IF data.shape[3] # Len(times.flat)
    THEN [exc |-> "ValueError", fields |-> NoFields]
    ELSE [exc |-> "none",
          fields |-> [info |-> info, data |-> data, times |-> times,
                      freqs |-> freqs, nave |-> nave, comment |-> comment,
                      method |-> method]]

----------------------------------------------------------------------------
(* The container machine: a heap of arrays and the AverageTFR instances *)

\* The containers the caller builds before operating on them: one per
\* condition (its comment), over these axes and channel counts
Conditions == <<"A", "B">>
TimesSet == {<<0>>, <<0, 0>>, <<0, 1, 2>>}
FreqsSet == {<<5>>, <<7>>}
NChs == {1, 2}

ChNames(n) == [i \in 1..n |-> i]
Info(n) == [chs |-> ChNames(n)]

ObjIds == 1..Len(objs)

\* the arrays an instance refers to
DataOf(o) == heap[objs[o].data]
TimesOf(o) == heap[objs[o].times]
FreqsOf(o) == heap[objs[o].freqs]
InfoOf(o) == heap[objs[o].info]

\* every field of instance o, by value
FieldsIn(h, os, o) ==
    [info |-> h[os[o].info], data |-> h[os[o].data], times |-> h[os[o].times],
     freqs |-> h[os[o].freqs], nave |-> os[o].nave,
     comment |-> os[o].comment, method |-> os[o].method]

Fields(o) == FieldsIn(heap, objs, o)

\* ghost record of a container: the call that last wrote its data (kind) with
\* the operand data of that call, and the instance it was copied from
NoProv == [kind |-> "none", lhsData |-> <<>>, rhsData |-> <<>>, copyOf |-> 0]

\* The last call: the operator, its left operand, the exception raised and
\* the instance returned; and as ghosts, whether the operands' axes were
\* identical, whether the call undoes the + / += that made its left operand
\* (rt) and the data that left operand had before it (expect)
NoCall == [op |-> "none", lhs |-> 0, exc |-> "none", out |-> 0,
           axesEq |-> FALSE, rt |-> FALSE, expect |-> <<>>]

Call(op, lhs, exc, out) ==
    [op |-> op, lhs |-> lhs, exc |-> exc, out |-> out,
     axesEq |-> FALSE, rt |-> FALSE, expect |-> <<>>]

\* ghost: the two operands carry identical time and frequency axes
AxesIdentical(a, b) ==
    /\ TimesOf(a).flat = TimesOf(b).flat
    /\ FreqsOf(a).flat = FreqsOf(b).flat

\* AverageTFR._check_compat: the exception it raises, or "none".  legacy
\* selects the numpy behaviour on shapes that cannot be compared.
check_compat(self, tfr, legacy) ==
    LET t == NpAllEqual(heap[tfr.times], heap[self.times])
        f == NpAllEqual(heap[tfr.freqs], heap[self.freqs])
        Raise(r) == IF r = "mismatch" /\ ~legacy THEN "ValueError"
                    ELSE "AssertionError"
    IN  IF t # "True" THEN Raise(t)
        ELSE IF f # "True" THEN Raise(f)
        ELSE "none"

\* mutant of deepcopy: copy.copy(self), a new instance over the same arrays
deepcopy_shallow(h, self) == [heap |-> h, obj |-> self]

\* mutant of deepcopy: the axes and info are duplicated, the data array is not
deepcopy_keep_data(h, self) ==
    LET n == Len(h)
    IN  [heap |-> h \o <<h[self.info], h[self.times], h[self.freqs]>>,
         obj |-> [self EXCEPT !.info = n + 1, !.times = n + 2, !.freqs = n + 3]]

\* copy.deepcopy(self): [heap, obj], every array of the instance duplicated
\* into fresh heap cells
deepcopy(h, self) ==
    LET n == Len(h)
    IN  [heap |-> h \o <<h[self.info], h[self.data], h[self.times], h[self.freqs]>>,
         obj |-> [self EXCEPT !.info = n + 1, !.data = n + 2,
                              !.times = n + 3, !.freqs = n + 4]]

\* mutant of iop_data: the subtraction adds
iop_data_add(h, self, tfr, sign) ==
    LET r == InPlaceComb(h[self.data], h[tfr.data], 1)
    IN  [exc |-> r.exc,
         heap |-> IF r.exc = "none" THEN [h EXCEPT ![self.data] = r.val] ELSE h]

\* self.data += tfr.data / self.data -= tfr.data on the heap h: [exc, heap]
iop_data(h, self, tfr, sign) ==
    LET r == InPlaceComb(h[self.data], h[tfr.data], sign)
    IN  [exc |-> r.exc,
         heap |-> IF r.exc = "none" THEN [h EXCEPT ![self.data] = r.val] ELSE h]

\* AverageTFR(...) called with freshly made arrays
Construct ==
    /\ nops = 0
    /\ Len(objs) < Len(Conditions)
    /\ \E n \in NChs, ts \in TimesSet, fs \in FreqsSet :
         /\ LET cond == Conditions[Len(objs) + 1]
                data == Ramp(<<n, Len(fs), Len(ts)>>, 1)
                r == AverageTFR_init(Info(n), data, Arr1(ts), Arr1(fs), 1, cond, "power")
                k == Len(heap)
            IN  IF r.exc # "none"
                THEN /\ last' = Call("init", 0, r.exc, 0)
                     /\ UNCHANGED <<heap, objs, prov>>
                ELSE /\ heap' = heap \o <<r.fields.info, r.fields.data,
                                          r.fields.times, r.fields.freqs>>
                     /\ objs' = Append(objs, [info |-> k + 1, data |-> k + 2,
                                              times |-> k + 3, freqs |-> k + 4,
                                              nave |-> r.fields.nave,
                                              comment |-> r.fields.comment,
                                              method |-> r.fields.method])
                     /\ prov' = Append(prov, NoProv)
                     /\ last' = Call("init", 0, "none", Len(objs) + 1)
    /\ UNCHANGED <<nops, ctorVars, ioVars, parVars, cohVars, stVars,
                   cwtVars, frqVars, wavVars, entVars>>

\* __add__ (sign 1) and __sub__ (sign -1): check, copy, combine into the copy
BinOp(op, sign, kind) ==
    /\ nops < MaxOps
    /\ \E a \in ObjIds, b \in ObjIds, legacy \in BOOLEAN :
         LET exc == check_compat(objs[a], objs[b], legacy)
             cp == deepcopy(heap, objs[a])
             r == iop_data(cp.heap, cp.obj, objs[b], sign)
             base == [Call(op, a, "none", 0) EXCEPT
                        !.axesEq = AxesIdentical(a, b),
                        !.rt = /\ a # b
                               /\ prov[a].kind = kind
                               /\ prov[a].rhsData = DataOf(b).flat
                               /\ DataOf(a).shape = DataOf(b).shape,
                        !.expect = prov[a].lhsData]
         IN  IF exc # "none"
             THEN /\ last' = [base EXCEPT !.exc = exc]
                  /\ UNCHANGED <<heap, objs, prov>>
             ELSE IF r.exc # "none"
             THEN /\ last' = [base EXCEPT !.exc = r.exc]
                  /\ UNCHANGED <<heap, objs, prov>>
             ELSE /\ heap' = r.heap
                  /\ objs' = Append(objs, cp.obj)
                  /\ prov' = Append(prov, [kind |-> op,
                                           lhsData |-> DataOf(a).flat,
                                           rhsData |-> DataOf(b).flat,
                                           copyOf |-> 0])
                  /\ last' = [base EXCEPT !.out = Len(objs) + 1]
    /\ nops' = nops + 1
    /\ UNCHANGED <<ctorVars, ioVars, parVars, cohVars, stVars,
                   cwtVars, frqVars, wavVars, entVars>>

Add == BinOp("add", 1, "-")
Sub == BinOp("sub", -1, "add")

\* __iadd__ (sign 1) and __isub__ (sign -1): check, combine into self
InPlaceOp(op, sign, kind) ==
    /\ nops < MaxOps
    /\ \E a \in ObjIds, b \in ObjIds, legacy \in BOOLEAN :
         LET exc == check_compat(objs[a], objs[b], legacy)
             r == iop_data(heap, objs[a], objs[b], sign)
             base == [Call(op, a, "none", 0) EXCEPT
                        !.axesEq = AxesIdentical(a, b),
                        !.rt = /\ a # b
                               /\ prov[a].kind = kind
                               /\ prov[a].rhsData = DataOf(b).flat
                               /\ DataOf(a).shape = DataOf(b).shape,
                        !.expect = prov[a].lhsData]
         IN  IF exc # "none"
             THEN /\ last' = [base EXCEPT !.exc = exc]
                  /\ UNCHANGED <<heap, objs, prov>>
             ELSE IF r.exc # "none"
             THEN /\ last' = [base EXCEPT !.exc = r.exc]
                  /\ UNCHANGED <<heap, objs, prov>>
             ELSE /\ heap' = r.heap
                  /\ prov' = [prov EXCEPT ![a] = [kind |-> op,
                                                  lhsData |-> DataOf(a).flat,
                                                  rhsData |-> DataOf(b).flat,
                                                  copyOf |-> prov[a].copyOf]]
                  /\ last' = [base EXCEPT !.out = a]
                  /\ UNCHANGED objs
    /\ nops' = nops + 1
    /\ UNCHANGED <<ctorVars, ioVars, parVars, cohVars, stVars,
                   cwtVars, frqVars, wavVars, entVars>>

IAdd == InPlaceOp("iadd", 1, "-")
ISub == InPlaceOp("isub", -1, "iadd")

\* AverageTFR.copy
Copy ==
    /\ nops < MaxOps
    /\ \E a \in ObjIds :
         LET cp == deepcopy(heap, objs[a])
         IN  /\ heap' = cp.heap
             /\ objs' = Append(objs, cp.obj)
             /\ prov' = Append(prov, [NoProv EXCEPT !.copyOf = a])
             /\ last' = Call("copy", a, "none", Len(objs) + 1)
    /\ nops' = nops + 1
    /\ UNCHANGED <<ctorVars, ioVars, parVars, cohVars, stVars,
                   cwtVars, frqVars, wavVars, entVars>>

\* A bound of a baseline interval: None, or a time
BaselineBounds ==
    {[given |-> FALSE, v |-> 0]} \cup {[given |-> TRUE, v |-> x] : x \in {0, 1}}

NoBaseline == [none |-> TRUE, lo |-> [given |-> FALSE, v |-> 0],
               hi |-> [given |-> FALSE, v |-> 0]]

\* baseline=None, or baseline=(a, b) with either bound None
BaselineArgs ==
    {NoBaseline} \cup
    {[none |-> FALSE, lo |-> a, hi |-> b] : a \in BaselineBounds, b \in BaselineBounds}

\* positions of the time axis inside the interval (a, b)
BaselineIdx(times, a, b) ==
    {i \in 1..Len(times.flat) :
        /\ (~a.given \/ times.flat[i] >= a.v)
        /\ (~b.given \/ times.flat[i] <= b.v)}

RECURSIVE SumOver(_, _)
SumOver(f, S) ==
    IF S = {} THEN 0
    ELSE LET x == CHOOSE y \in S : TRUE IN f[x] + SumOver(f, S \ {x})

\* sum of row (c, f) of a 3-D array over the time positions in idx
RowSum(data, c, f, idx) ==
    SumOver([t \in idx |-> data.flat[Ravel3(data.shape, <<c, f, t>>)]], idx)

\* the interval is not empty and every row has an integer mean over it
ExactMean(data, idx) ==
    /\ idx # {}
    /\ \A c \in 1..data.shape[1], f \in 1..data.shape[2] :
         RowSum(data, c, f, idx) % Cardinality(idx) = 0

\* baseline.rescale(data, times, baseline, "mean", copy=False): every row
\* minus its mean over the baseline interval, the array kept in place
rescale(data, times, baseline) ==
    IF baseline.none THEN data
    ELSE LET idx == BaselineIdx(times, baseline.lo, baseline.hi)
         IN  NdArray(data.shape,
               [i \in 1..Prod(data.shape) |->
                  LET ix == Unravel3(data.shape, i)
                  IN  data.flat[i]
                        - (RowSum(data, ix[1], ix[2], idx) \div Cardinality(idx))])

\* AverageTFR.apply_baseline(baseline, mode='mean')
ApplyBaseline ==
    /\ nops < MaxOps
    /\ \E a \in ObjIds, baseline \in BaselineArgs :
         /\ ~baseline.none =>
              ExactMean(DataOf(a), BaselineIdx(TimesOf(a), baseline.lo, baseline.hi))
         /\ heap' = [heap EXCEPT ![objs[a].data] =
                        rescale(DataOf(a), TimesOf(a), baseline)]
         /\ prov' = [prov EXCEPT ![a] = [NoProv EXCEPT !.copyOf = prov[a].copyOf]]
         /\ last' = Call("apply_baseline", a, "none", 0)
         /\ UNCHANGED objs
    /\ nops' = nops + 1
    /\ UNCHANGED <<ctorVars, ioVars, parVars, cohVars, stVars,
                   cwtVars, frqVars, wavVars, entVars>>

TfrIdle ==
    /\ heap = <<>>
    /\ objs = <<>>
    /\ last = NoCall
    /\ prov = <<>>
    /\ nops = 0

CtorIdle ==
    /\ ctorIn = NoFields
    /\ ctorOut = [exc |-> "idle", fields |-> NoFields]

IoIdle ==
    /\ ioArg = [single |-> FALSE, tfrs |-> <<>>]
    /\ file = [exists |-> FALSE, entries |-> <<>>]
    /\ ioOut = [exc |-> "idle", single |-> FALSE, tfrs |-> <<>>,
                cond |-> [given |-> FALSE, int |-> FALSE, v |-> 0, s |-> ""]]

NoParIn == [transform |-> "none", n_channels |-> 0, n_jobs |-> 0, n_taps |-> 0,
            return_itc |-> FALSE, fails |-> {}]

NoParOut == [status |-> "none", power |-> <<>>, itc |-> <<>>]

ParIdle ==
    /\ parIn = NoParIn
    /\ pc = "idle"
    /\ round = 0
    /\ pending = {}
    /\ running = {}
    /\ ret = <<>>
    /\ psd = <<>>
    /\ itc = <<>>
    /\ finished = <<>>
    /\ parOut = NoParOut

NoCohIn == [engine |-> "none", coefs |-> <<>>, decim |-> 1, zero_pad |-> 0,
            compute_itc |-> FALSE]

NoCohOut == [psd |-> <<>>, plf |-> <<>>, has_plf |-> FALSE]

CohIdle ==
    /\ cohIn = NoCohIn
    /\ cohPc = "idle"
    /\ cohK = 0
    /\ accPsd = <<>>
    /\ accPlf = <<>>
    /\ cohOut = NoCohOut

NoneInt == [given |-> FALSE, v |-> 0]

SomeInt(n) == [given |-> TRUE, v |-> n]

NoStIn == [n_times |-> 0, n_fft |-> NoneInt, decim |-> 1]

NoStOut == [exc |-> "none", n_fft |-> 0, zero_pad |-> NoneInt, x_in |-> <<>>,
            n_out |-> 0, task_n_out |-> 0, cols |-> <<>>]

StIdle ==
    /\ stIn = NoStIn
    /\ stPc = "idle"
    /\ stOut = NoStOut

NoCwtIn == [engine |-> "none", n_signals |-> 0, n_times |-> 0, Ws |-> <<>>,
            mode |-> "same", interpreter |-> 2]

CwtIdle ==
    /\ cwtIn = NoCwtIn
    /\ cwtPc = "idle"
    /\ cwtK = 0
    /\ cwtI = 0
    /\ cwtYielded = 0
    /\ cwtExc = "none"
    /\ cwtFsize = 0
    /\ cwtTfr = <<>>
    /\ cwtOut = <<>>

NoFrqIn == [n_fft |-> 0, fmin |-> NoneInt, fmax |-> NoneInt]

NoFrqOut == [exc |-> "none", freqs |-> <<>>, fmin |-> 0, fmax |-> 0,
             start_f |-> 0, stop_f |-> 0, axis |-> <<>>, n_windows |-> 0,
             n_freq |-> 0]

FrqIdle ==
    /\ frqIn = NoFrqIn
    /\ frqPc = "idle"
    /\ frqOut = NoFrqOut

NoWavIn == [builder |-> "none", freqs |-> <<>>, n_cycles |-> <<>>, tb2 |-> 0,
            zero_mean |-> FALSE]

NoWavOut == [exc |-> "none", n_taps |-> 0, Ws |-> <<>>, Wm |-> <<>>, norms |-> {}]

WavIdle ==
    /\ wavIn = NoWavIn
    /\ wavPc = "idle"
    /\ wavOut = NoWavOut

NoEntIn == [transform |-> "none", kind |-> "none", n_epochs |-> 0,
            n_channels |-> 0, n_times |-> 0, decim |-> 1, return_itc |-> FALSE,
            freqs |-> <<>>, n_fft |-> NoneInt, fmin |-> NoneInt, fmax |-> NoneInt]

NoArrays == [exc |-> "none", power |-> <<>>, itc |-> <<>>, freqs |-> <<>>,
             n_windows |-> 0]

NoEntOut == [exc |-> "none", n_trials |-> 0, kernels_built |-> 0,
             tasks_run |-> 0, arrays |-> NoArrays, returns |-> "nothing",
             power |-> NoFields, itc |-> NoFields]

NoRefs == [info |-> 0, data |-> 0, times |-> 0, freqs |-> 0]

EntIdle ==
    /\ entIn = NoEntIn
    /\ entPc = "idle"
    /\ entOut = NoEntOut
    /\ entHeap = <<>>
    /\ entRefs = [power |-> NoRefs, itc |-> NoRefs]
    /\ entMut = [who |-> "none", field |-> "none"]

Init ==
    /\ TfrIdle /\ CtorIdle /\ IoIdle /\ ParIdle /\ CohIdle /\ StIdle
    /\ CwtIdle /\ FrqIdle /\ WavIdle /\ EntIdle

Next ==
    \/ Construct
    \/ Add
    \/ Sub
    \/ IAdd
    \/ ISub
    \/ Copy
    \/ ApplyBaseline

Spec == Init /\ [][Next]_vars

\* The four arithmetic operators alone, over freshly constructed containers
\* and over the results of earlier arithmetic.
NextArith ==
    \/ Construct
    \/ Add
    \/ Sub
    \/ IAdd
    \/ ISub

SpecArith == Init /\ [][NextArith]_vars

----------------------------------------------------------------------------
(* SpecCtor: AverageTFR.__init__ on arbitrary argument shapes *)

\* data arrays of 2, 3 and 4 dimensions with axes of extent 1 or 2
CtorShapes ==
    UNION {[1..n -> {1, 2}] : n \in {2, 3, 4}}

CtorCall ==
    /\ ctorOut.exc = "idle"
    /\ \E n \in NChs, shape \in CtorShapes, nt \in {1, 2}, nf \in {1, 2},
          nave \in {1, 2}, comment \in {"None", "A"},
          method \in {"None", "morlet-power"} :
         LET info == Info(n)
             data == Ramp(shape, 1)
             times == Arr1([i \in 1..nt |-> i - 1])
             freqs == Arr1([i \in 1..nf |-> 4 + i])
         IN  /\ ctorIn' = [info |-> info, data |-> data, times |-> times,
                           freqs |-> freqs, nave |-> nave, comment |-> comment,
                           method |-> method]
             /\ ctorOut' = AverageTFR_init(info, data, times, freqs, nave,
                                           comment, method)
    /\ UNCHANGED <<tfrVars, ioVars, parVars, cohVars, stVars,
                   cwtVars, frqVars, wavVars, entVars>>

NextCtor == CtorCall

SpecCtor == Init /\ [][NextCtor]_vars

----------------------------------------------------------------------------
(* SpecIO: write_tfrs and read_tfrs over one -tfr.h5 file *)

\* comments: None, a string, or an int
NoneC == [kind |-> "none", s |-> "", v |-> 0]
StrC(x) == [kind |-> "str", s |-> x, v |-> 0]
IntC(x) == [kind |-> "int", s |-> "", v |-> x]
Comments == {NoneC, StrC("A"), IntC(0), IntC(1)}

\* the containers offered to write_tfrs, by value
IoContainers ==
    {AverageTFR_init(Info(1), Ramp(<<1, 1, Len(ts)>>, 1), Arr1(ts), Arr1(<<5>>),
                     nave, c, m).fields :
        ts \in {<<0>>, <<0, 1>>}, nave \in {1, 2}, c \in Comments,
        m \in {"None", "morlet-power"}}

\* lists of at most n containers
RECURSIVE ListsUpTo(_)
ListsUpTo(n) ==
    IF n = 0 THEN {<<>>}
    ELSE LET shorter == ListsUpTo(n - 1)
         IN  shorter \cup {Append(l, t) : l \in {x \in shorter : Len(x) = n - 1},
                                           t \in IoContainers}

\* a condition label: the key a container is written under
IntLabel(i) == [int |-> TRUE, v |-> i, s |-> ""]
StrLabel(x) == [int |-> FALSE, v |-> 0, s |-> x]

\* comment = ii if tfr_.comment is None else tfr_.comment  (ii counts from 0)
LabelOf(ii, comment) ==
    IF comment.kind = "none" THEN IntLabel(ii)
    ELSE IF comment.kind = "int" THEN IntLabel(comment.v)
    ELSE StrLabel(comment.s)

\* _prepare_write_tfr: (condition, dict of the container's fields)
prepare_write_tfr(tfr, condition) ==
    [cond |-> condition,
     dict |-> [times |-> tfr.times, freqs |-> tfr.freqs, data |-> tfr.data,
               info |-> tfr.info, nave |-> tfr.nave, comment |-> tfr.comment,
               method |-> tfr.method]]

\* the list write_tfrs hands to write_hdf5
write_out(tfrs) ==
    [i \in 1..Len(tfrs) |-> prepare_write_tfr(tfrs[i], LabelOf(i - 1, tfrs[i].comment))]

\* write_hdf5 / read_hdf5: the file holds the written list as it is
write_hdf5(out) == [exists |-> TRUE, entries |-> out]
read_hdf5(f) == f.entries

\* AverageTFR(**d)
FromDict(d) ==
    AverageTFR_init(d.info, d.data, d.times, d.freqs, d.nave, d.comment, d.method)

\* dict(tfr_data)[condition]: the LAST entry written under the label
DictLookup(entries, label) ==
    LET hits == {i \in 1..Len(entries) : entries[i].cond = label}
    IN  IF hits = {} THEN 0 ELSE CHOOSE i \in hits : \A j \in hits : j <= i

NoCond == [given |-> FALSE, int |-> FALSE, v |-> 0, s |-> ""]
CondOf(label) == [given |-> TRUE, int |-> label.int, v |-> label.v, s |-> label.s]

\* write_tfrs(fname, tfr) with one container
WriteOne ==
    /\ ~file.exists
    /\ \E t \in IoContainers :
         /\ ioArg' = [single |-> TRUE, tfrs |-> <<t>>]
         /\ file' = write_hdf5(write_out(<<t>>))
    /\ UNCHANGED <<ioOut, tfrVars, ctorVars, parVars, cohVars, stVars,
                   cwtVars, frqVars, wavVars, entVars>>

\* write_tfrs(fname, tfr) with a list of containers
WriteList ==
    /\ ~file.exists
    /\ \E l \in ListsUpTo(MaxList) :
         /\ ioArg' = [single |-> FALSE, tfrs |-> l]
         /\ file' = write_hdf5(write_out(l))
    /\ UNCHANGED <<ioOut, tfrVars, ctorVars, parVars, cohVars, stVars,
                   cwtVars, frqVars, wavVars, entVars>>

\* read_tfrs(fname, condition=None)
ReadAll ==
    /\ file.exists
    /\ LET tfr_data == read_hdf5(file)
           made == [i \in 1..Len(tfr_data) |-> FromDict(tfr_data[i].dict)]
       IN  ioOut' =
             IF Len(tfr_data) = 0
             THEN [exc |-> "IndexError", single |-> FALSE, tfrs |-> <<>>,
                   cond |-> NoCond]
             ELSE IF \E i \in 1..Len(made) : made[i].exc # "none"
             THEN [exc |-> "ValueError", single |-> FALSE, tfrs |-> <<>>,
                   cond |-> NoCond]
             ELSE [exc |-> "none", single |-> FALSE,
                   tfrs |-> [i \in 1..Len(made) |-> made[i].fields],
                   cond |-> NoCond]
    /\ UNCHANGED <<ioArg, file, tfrVars, ctorVars, parVars, cohVars, stVars,
                   cwtVars, frqVars, wavVars, entVars>>

\* the labels a caller may ask for
Labels == {IntLabel(i) : i \in 0..MaxList} \cup {StrLabel("A"), StrLabel("B")}

\* read_tfrs(fname, condition)
ReadCond ==
    /\ file.exists
    /\ \E label \in Labels :
         LET tfr_data == read_hdf5(file)
             k == DictLookup(tfr_data, label)
         IN  ioOut' =
               IF k = 0
               THEN [exc |-> "ValueError", single |-> TRUE, tfrs |-> <<>>,
                     cond |-> CondOf(label)]
               ELSE LET r == FromDict(tfr_data[k].dict)
                    IN  IF r.exc # "none"
                        THEN [exc |-> r.exc, single |-> TRUE, tfrs |-> <<>>,
                              cond |-> CondOf(label)]
                        ELSE [exc |-> "none", single |-> TRUE,
                              tfrs |-> <<r.fields>>, cond |-> CondOf(label)]
    /\ UNCHANGED <<ioArg, file, tfrVars, ctorVars, parVars, cohVars, stVars,
                   cwtVars, frqVars, wavVars, entVars>>

NextIO ==
    \/ WriteOne
    \/ WriteList
    \/ ReadAll
    \/ ReadCond

SpecIO == Init /\ [][NextIO]_vars

----------------------------------------------------------------------------
(* SpecPar: _induced_power_cwt, _induced_power_mtm, _induced_power_stockwell *)
(* and their entry points: a fork-join map of one task per channel           *)

Transforms == {"morlet", "multitaper", "stockwell"}

\* The value a task returns is a pure function of its arguments, the slice
\* data[:, c, :] and the kernel bank Ws[m]; it is kept symbolic, as the pair
\* of the channel whose slice was read and the taper used.
TaskValue(c, m) == [chan |-> c, taper |-> m]

\* A slot of an output array: np.empty (not yet written), or the sum, in the
\* order of accumulation, of task values, divided by div
EmptySlot == [written |-> FALSE, terms |-> <<>>, div |-> 1]
ZeroSlot == [written |-> TRUE, terms |-> <<>>, div |-> 1]

NoRet == [done |-> FALSE, psd |-> TaskValue(0, 0), itc |-> TaskValue(0, 0),
          has_itc |-> FALSE]

\* _time_frequency(data[:, c, :], Ws, use_fft, decim) always returns (psd, plf);
\* _st_power_itc returns (psd, None) unless compute_itc
task_return(c, m, transform, return_itc) ==
    [done |-> TRUE, psd |-> TaskValue(c, m), itc |-> TaskValue(c, m),
     has_itc |-> transform # "stockwell" \/ return_itc]

\* the channel whose slice the task at position c of the submitted sequence
\* is given: my_time_frequency(data[:, c, :], ...) for c in range(n_channels)
task_slice(c) == c

\* the arrays as preallocated before the map
prealloc(transform, n, return_itc) ==
    [psd |-> [c \in 1..n |-> IF transform = "multitaper" THEN ZeroSlot ELSE EmptySlot],
     itc |-> IF transform = "multitaper" THEN [c \in 1..n |-> ZeroSlot]
             ELSE IF transform = "morlet" \/ return_itc THEN [c \in 1..n |-> EmptySlot]
             ELSE <<>>]

store_overwrite(slot, v, accumulate) ==
    [written |-> TRUE, terms |-> <<v>>, div |-> 1]

\* psd[c, :, :] = psd_c (Morlet, Stockwell)   /   psd[c, :, :] += psd_c (multitaper)
store(slot, v, accumulate) ==
    IF accumulate
    THEN [slot EXCEPT !.terms = Append(slot.terms, v)]
    ELSE [written |-> TRUE, terms |-> <<v>>, div |-> 1]

\* for c, (psd_c, plf_c) in enumerate(psd_plf): the slot a result goes to
gather_slot_first(c) == 1

gather_slot(c) == c

\* the gathering loop over the list the map returned
gather(arr, results, field, accumulate) ==
    [k \in 1..Len(arr) |->
        IF \E c \in 1..Len(results) : gather_slot(c) = k
        THEN LET c == CHOOSE c \in 1..Len(results) :
                        /\ gather_slot(c) = k
                        /\ \A d \in 1..Len(results) : gather_slot(d) = k => d <= c
             IN  store(arr[k], results[c][field], accumulate)
        ELSE arr[k]]

\* what the caller does when a task raised: there is no handler, the
\* exception leaves the entry point
on_task_error_skip == "skip"

on_task_error == "raise"

ParInputs ==
    {[transform |-> t, n_channels |-> n, n_jobs |-> j, n_taps |-> k,
      return_itc |-> r, fails |-> f] :
        t \in Transforms, n \in 1..MaxChannels, j \in 1..MaxJobs, k \in 1..MaxTaps,
        r \in BOOLEAN,
        f \in {{}} \cup {{TaskValue(c, m)} : c \in 1..MaxChannels, m \in 1..MaxTaps}}

\* the entry point is called: data extracted, kernels built, arrays preallocated
ParStart ==
    /\ pc = "idle"
    /\ \E in \in ParInputs :
         /\ in.transform # "multitaper" => in.n_taps = 1
         /\ \A t \in in.fails : t.chan <= in.n_channels /\ t.taper <= in.n_taps
         /\ parIn' = in
         /\ psd' = prealloc(in.transform, in.n_channels, in.return_itc).psd
         /\ itc' = prealloc(in.transform, in.n_channels, in.return_itc).itc
         /\ pending' = 1..in.n_channels
         /\ ret' = [c \in 1..in.n_channels |-> NoRet]
    /\ pc' = "fork"
    /\ round' = 1
    /\ running' = {}
    /\ finished' = <<>>
    /\ UNCHANGED <<parOut, tfrVars, ctorVars, ioVars, cohVars, stVars,
                   cwtVars, frqVars, wavVars, entVars>>

\* a free worker takes the next task of the submitted sequence
Dispatch ==
    /\ pc = "fork"
    /\ pending # {}
    /\ Cardinality(running) < parIn.n_jobs
    /\ LET c == CHOOSE x \in pending : \A y \in pending : x <= y
       IN  /\ pending' = pending \ {c}
           /\ running' = running \cup {c}
    /\ UNCHANGED <<parIn, pc, round, ret, psd, itc, finished, parOut,
                   tfrVars, ctorVars, ioVars, cohVars, stVars,
                   cwtVars, frqVars, wavVars, entVars>>

\* a running task ends: it returns its value, or it raises
Complete ==
    /\ pc = "fork"
    /\ \E c \in running :
         IF TaskValue(task_slice(c), round) \in parIn.fails
         THEN IF on_task_error = "raise"
              THEN /\ pc' = "raised"
                   /\ parOut' = [status |-> "raised", power |-> <<>>, itc |-> <<>>]
                   /\ UNCHANGED <<running, ret, finished>>
              ELSE /\ running' = running \ {c}
                   /\ ret' = [ret EXCEPT ![c] = [NoRet EXCEPT !.done = TRUE]]
                   /\ finished' = Append(finished, c)
                   /\ UNCHANGED <<pc, parOut>>
         ELSE /\ running' = running \ {c}
              /\ ret' = [ret EXCEPT ![c] = task_return(task_slice(c), round,
                                                       parIn.transform,
                                                       parIn.return_itc)]
              /\ finished' = Append(finished, c)
              /\ UNCHANGED <<pc, parOut>>
    /\ UNCHANGED <<parIn, round, pending, psd, itc,
                   tfrVars, ctorVars, ioVars, cohVars, stVars,
                   cwtVars, frqVars, wavVars, entVars>>

\* every task of the round has returned: the map hands the caller the list
\* of results in submission order, and the caller's loop stores them
Collect ==
    /\ pc = "fork"
    /\ pending = {}
    /\ running = {}
    /\ LET acc == parIn.transform = "multitaper"
           psd1 == gather(psd, ret, "psd", acc)
           itc1 == IF itc = <<>> THEN itc ELSE gather(itc, ret, "itc", acc)
           more == acc /\ round < parIn.n_taps
           scale(arr) == [k \in 1..Len(arr) |-> [arr[k] EXCEPT !.div = parIn.n_taps]]
       IN  /\ psd' = IF acc /\ ~more THEN scale(psd1) ELSE psd1
           /\ itc' = IF acc /\ ~more THEN scale(itc1) ELSE itc1
           /\ IF more
              THEN /\ round' = round + 1
                   /\ pending' = 1..parIn.n_channels
                   /\ ret' = [c \in 1..parIn.n_channels |-> NoRet]
                   /\ finished' = <<>>
                   /\ pc' = "fork"
              ELSE /\ pc' = "wrap"
                   /\ UNCHANGED <<round, pending, ret, finished>>
    /\ UNCHANGED <<parIn, running, parOut, tfrVars, ctorVars, ioVars, cohVars, stVars,
                   cwtVars, frqVars, wavVars, entVars>>

\* the entry point wraps the arrays: power alone, or (power, itc)
ParReturn ==
    /\ pc = "wrap"
    /\ pc' = "done"
    /\ parOut' = [status |-> "returned", power |-> psd,
                  itc |-> IF parIn.return_itc THEN itc ELSE <<>>]
    /\ UNCHANGED <<parIn, round, pending, running, ret, psd, itc, finished,
                   tfrVars, ctorVars, ioVars, cohVars, stVars,
                   cwtVars, frqVars, wavVars, entVars>>

NextPar ==
    \/ ParStart
    \/ Dispatch
    \/ Complete
    \/ Collect
    \/ ParReturn

SpecPar == Init /\ [][NextPar]_vars

----------------------------------------------------------------------------
(* SpecCoh: the loop of _time_frequency over the per-trial coefficient      *)
(* arrays, and the body of _st_power_itc, at one frequency                   *)

\* A complex coefficient with integer parts, one of which is zero, so that
\* its magnitude and its quotient by its magnitude are exact
Cx(re, im) == [re |-> re, im |-> im]

CoefValues == {Cx(0, 0), Cx(1, 0), Cx(-1, 0), Cx(0, 2)}

IntAbs(n) == IF n < 0 THEN -n ELSE n

\* np.abs of a coefficient
np_abs(z) == IntAbs(z.re) + IntAbs(z.im)

\* a complex float: NaN, or a value with integer parts
CNum(re, im) == [nan |-> FALSE, re |-> re, im |-> im]
CNaN == [nan |-> TRUE, re |-> 0, im |-> 0]

\* tfr / tfr_abs, elementwise: IEEE 754 gives 0/0 = NaN (numpy warns, does
\* not raise)
unit_phase(z, a) == IF a = 0 THEN CNaN ELSE CNum(z.re \div a, z.im \div a)

\* the sum of two complex floats: NaN propagates
c_add(x, y) ==
    IF x.nan \/ y.nan THEN CNaN ELSE CNum(x.re + y.re, x.im + y.im)

n_decim_floor(n, decim) == n \div decim

\* n_times // decim + bool(n_times % decim)
n_decim(n, decim) == n \div decim + (IF n % decim # 0 THEN 1 ELSE 0)

\* row[:stop:decim]
Decimate(row, stop, decim) ==
    [k \in 1..n_decim(stop, decim) |-> row[(k - 1) * decim + 1]]

\* np.abs(plf) / n_epochs of an accumulated phase sum: the real NaN, or the
\* real sqrt(sq) / n, kept as the pair (sq, n)
Coherence(p, n) == [nan |-> p.nan, sq |-> p.re * p.re + p.im * p.im, n |-> n]

\* psd / n_epochs, kept as a fraction
Mean(total, n) == [num |-> total, den |-> n]

\* 0 <= v <= 1 for a coherence value; every comparison with NaN is false
InUnitInterval(v) == ~v.nan /\ v.sq <= v.n * v.n

RECURSIVE SumSq(_, _, _)
\* the sum over trials 1..k of |rows[k][t]|^2
SumSq(rows, k, t) ==
    IF k = 0 THEN 0
    ELSE SumSq(rows, k - 1, t) + np_abs(rows[k][t]) * np_abs(rows[k][t])

RECURSIVE SumPhase(_, _, _)
\* the sum over trials 1..k of rows[k][t] / |rows[k][t]|
SumPhase(rows, k, t) ==
    IF k = 0 THEN CNum(0, 0)
    ELSE c_add(SumPhase(rows, k - 1, t),
               unit_phase(rows[k][t], np_abs(rows[k][t])))

TimeLens == {1, 2}
Decims == {1, 2}

CoefArrays(n_epochs, len) == [1..n_epochs -> [1..len -> CoefValues]]

\* _time_frequency is called: the accumulators are zeroed, the engine is a
\* generator of per-trial arrays
CohStart ==
    /\ cohPc = "idle"
    /\ \E n_epochs \in 1..MaxTrials, n_times \in TimeLens, decim \in Decims :
         \E coefs \in CoefArrays(n_epochs, n_times) :
           /\ cohIn' = [engine |-> "wavelet", coefs |-> coefs, decim |-> decim,
                        zero_pad |-> 0, compute_itc |-> TRUE]
           /\ accPsd' = [t \in 1..n_decim(n_times, decim) |-> 0]
           /\ accPlf' = [t \in 1..n_decim(n_times, decim) |-> CNum(0, 0)]
    /\ cohPc' = "loop"
    /\ cohK' = 0
    /\ UNCHANGED <<cohOut, tfrVars, ctorVars, ioVars, parVars, stVars,
                   cwtVars, frqVars, wavVars, entVars>>

\* one iteration of  for tfr in tfrs
CohTrial ==
    /\ cohPc = "loop"
    /\ cohK < Len(cohIn.coefs)
    /\ LET raw == cohIn.coefs[cohK + 1]
           tfr == Decimate(raw, Len(raw), cohIn.decim)
       IN  /\ accPsd' = [t \in 1..Len(accPsd) |->
                            accPsd[t] + np_abs(tfr[t]) * np_abs(tfr[t])]
           /\ accPlf' = [t \in 1..Len(accPlf) |->
                            c_add(accPlf[t], unit_phase(tfr[t], np_abs(tfr[t])))]
    /\ cohK' = cohK + 1
    /\ UNCHANGED <<cohIn, cohPc, cohOut, tfrVars, ctorVars, ioVars, parVars, stVars,
                   cwtVars, frqVars, wavVars, entVars>>

\* the generator is exhausted: psd /= n_epochs, plf = np.abs(plf) / n_epochs
CohFinish ==
    /\ cohPc = "loop"
    /\ cohK = Len(cohIn.coefs)
    /\ cohOut' = [psd |-> [t \in 1..Len(accPsd) |-> Mean(accPsd[t], Len(cohIn.coefs))],
                  plf |-> [t \in 1..Len(accPlf) |->
                              Coherence(accPlf[t], Len(cohIn.coefs))],
                  has_plf |-> TRUE]
    /\ cohPc' = "done"
    /\ UNCHANGED <<cohIn, cohK, accPsd, accPlf, tfrVars, ctorVars, ioVars,
                   parVars, stVars,
                   cwtVars, frqVars, wavVars, entVars>>

RECURSIVE SumRows(_, _, _)
\* np.sum(rows, axis=0)[t] over the rows 1..k of a real array
SumRows(rows, k, t) ==
    IF k = 0 THEN 0 ELSE SumRows(rows, k - 1, t) + rows[k][t]

tfr_abs_after_division(z, compute_itc) ==
    IF compute_itc /\ np_abs(z) # 0 THEN 1 ELSE np_abs(z)

\* the element of TFR_abs for the coefficient z: TFR_abs = np.abs(TFR) is a
\* new array, filled before  TFR /= TFR_abs  divides TFR in place
tfr_abs_of(z, compute_itc) == np_abs(z)

\* the body of the loop of _st_power_itc for one window: ST holds the
\* transform of every trial, zero_pad samples of padding at its end
st_power_itc(ST, zero_pad, decim, compute_itc) ==
    LET n_epochs == Len(ST)
        n_kept == Len(ST[1]) - zero_pad
        n_out == n_decim(n_kept, decim)
        TFR == [e \in 1..n_epochs |-> Decimate(ST[e], n_kept, decim)]
        TFR_abs == [e \in 1..n_epochs |->
                      [t \in 1..n_out |-> tfr_abs_of(TFR[e][t], compute_itc)]]
        squared == [e \in 1..n_epochs |->
                      [t \in 1..n_out |-> TFR_abs[e][t] * TFR_abs[e][t]]]
    IN  [psd |-> [t \in 1..n_out |-> Mean(SumRows(squared, n_epochs, t), n_epochs)],
         plf |-> IF compute_itc
                 THEN [t \in 1..n_out |->
                         Coherence(SumPhase(TFR, n_epochs, t), n_epochs)]
                 ELSE <<>>,
         has_plf |-> compute_itc]

\* _st_power_itc at one window: all trials at once, the padded samples cut
StPowerItc ==
    /\ cohPc = "idle"
    /\ \E n_epochs \in 1..MaxTrials, n_times \in TimeLens, decim \in Decims,
          compute_itc \in BOOLEAN :
         \E ST \in CoefArrays(n_epochs, n_times + 1) :
           LET zero_pad == 1
           IN  /\ cohIn' = [engine |-> "stockwell", coefs |-> ST, decim |-> decim,
                            zero_pad |-> zero_pad, compute_itc |-> compute_itc]
               /\ cohOut' = st_power_itc(ST, zero_pad, decim, compute_itc)
               /\ cohK' = n_epochs
    /\ cohPc' = "done"
    /\ UNCHANGED <<accPsd, accPlf, tfrVars, ctorVars, ioVars, parVars, stVars,
                   cwtVars, frqVars, wavVars, entVars>>

NextCoh ==
    \/ CohStart
    \/ CohTrial
    \/ CohFinish
    \/ StPowerItc

SpecCoh == Init /\ [][NextCoh]_vars

----------------------------------------------------------------------------
(* SpecSt: _check_input_st and the lengths derived around it                *)

RECURSIVE BitAnd(_, _)
\* a & b for non-negative integers
BitAnd(a, b) ==
    IF a = 0 \/ b = 0 THEN 0
    ELSE (a % 2) * (b % 2) + 2 * BitAnd(a \div 2, b \div 2)

\* lambda n: not (n > 0 and (n & (n - 1)))
is_power_of_two(n) == ~(n > 0 /\ BitAnd(n, n - 1) # 0)

RECURSIVE Pow2AtLeast(_, _)
Pow2AtLeast(p, n) == IF p >= n THEN p ELSE Pow2AtLeast(2 * p, n)

\* 2 ** int(math.ceil(math.log(n_times, 2))), exact for the lengths used
next_power_of_two(n) == Pow2AtLeast(1, n)

\* the n_fft < n_times test of the elif branch
fft_too_short(n_fft, n_times) == n_fft < n_times

\* _check_input_st(x_in, n_fft): what the call gives its caller. The return
\* statement stands inside the  if n_times < n_fft  block, so a call that
\* pads nothing falls off the end and returns None.
check_input_st(x_in, n_fft) ==
    LET n_times == Len(x_in)
        substitute == \/ ~n_fft.given
                      \/ (~is_power_of_two(n_fft.v) /\ n_times > n_fft.v)
        n_fft1 == IF substitute THEN next_power_of_two(n_times) ELSE n_fft.v
    IN  IF ~substitute /\ fft_too_short(n_fft.v, n_times)
        THEN [exc |-> "ValueError", returns |-> "nothing", n_fft |-> 0,
              zero_pad |-> NoneInt, x_in |-> <<>>]
        ELSE IF n_times < n_fft1
        THEN [exc |-> "none", returns |-> "tuple", n_fft |-> n_fft1,
              zero_pad |-> SomeInt(n_fft1 - n_times),
              x_in |-> x_in \o [i \in 1..(n_fft1 - n_times) |-> 0]]
        ELSE [exc |-> "none", returns |-> "None", n_fft |-> 0,
              zero_pad |-> NoneInt, x_in |-> <<>>]

StDecims == {1, 2, 3}

FftArgs == {NoneInt} \cup {SomeInt(n) : n \in 0..MaxFft}

\* _induced_power_stockwell is called: n_out is computed from the signal
StCall ==
    /\ stPc = "idle"
    /\ \E n_times \in 1..MaxSamples, n_fft \in FftArgs, decim \in StDecims :
         /\ stIn' = [n_times |-> n_times, n_fft |-> n_fft, decim |-> decim]
         /\ stOut' = [NoStOut EXCEPT !.n_out = n_decim(n_times, decim)]
    /\ stPc' = "check"
    /\ UNCHANGED <<tfrVars, ctorVars, ioVars, parVars, cohVars,
                   cwtVars, frqVars, wavVars, entVars>>

\* data, n_fft_, zero_pad = _check_input_st(data, n_fft)
StCheckInput ==
    /\ stPc = "check"
    /\ LET r == check_input_st([i \in 1..stIn.n_times |-> 1], stIn.n_fft)
       IN  IF r.exc # "none"
           THEN /\ stOut' = [stOut EXCEPT !.exc = r.exc]
                /\ stPc' = "raised"
           ELSE IF r.returns = "None"
           THEN /\ stOut' = [stOut EXCEPT !.exc = "TypeError"]
                /\ stPc' = "raised"
           ELSE /\ stOut' = [stOut EXCEPT !.n_fft = r.n_fft, !.zero_pad = r.zero_pad,
                                          !.x_in = r.x_in]
                /\ stPc' = "checked"
    /\ UNCHANGED <<stIn, tfrVars, ctorVars, ioVars, parVars, cohVars,
                   cwtVars, frqVars, wavVars, entVars>>

\* the 0-based sample positions kept by  ST[:, :-zero_pad:decim]  of a row of
\* n_samp samples (a stop of -0 is a stop of 0)
st_slice_all(n_samp, zero_pad, decim) ==
    [k \in 1..n_decim(n_samp, decim) |-> (k - 1) * decim]

st_slice(n_samp, zero_pad, decim) ==
    LET stop == IF zero_pad = 0 THEN 0
                ELSE IF zero_pad >= n_samp THEN 0 ELSE n_samp - zero_pad
    IN  [k \in 1..n_decim(stop, decim) |-> (k - 1) * decim]

\* a channel task sizes its output, n_out = n_samp - zero_pad decimated, and
\* cuts the coefficients of each window
StTaskShape ==
    /\ stPc = "checked"
    /\ stOut' = [stOut EXCEPT
                   !.task_n_out =
                       n_decim(Len(stOut.x_in) - stOut.zero_pad.v, stIn.decim),
                   !.cols = st_slice(Len(stOut.x_in), stOut.zero_pad.v, stIn.decim)]
    /\ stPc' = "done"
    /\ UNCHANGED <<stIn, tfrVars, ctorVars, ioVars, parVars, cohVars,
                   cwtVars, frqVars, wavVars, entVars>>

NextSt ==
    \/ StCall
    \/ StCheckInput
    \/ StTaskShape

SpecSt == Init /\ [][NextSt]_vars

----------------------------------------------------------------------------
(* SpecCwt: _cwt_fft and _cwt_convolve, generators over the trials of X,    *)
(* driven by a consumer that iterates them to the end. A coefficient is the  *)
(* set of the terms it sums: Term(k, i, j) is sample j (from 0) of the full  *)
(* linear convolution of trial k with kernel i; the empty set is zero.       *)

BankSizes == {1, 2}

KernelBanks == UNION {[1..n -> 1..MaxKernel] : n \in BankSizes}

Modes == {"same", "valid", "full"}

\* the interpreter running the module: 2 divides integers with floor, 3 into
\* a float (the module has no  from __future__ import division)
Interpreters == {2, 3}

\* len(W) > n_times
too_long(W, n_times) == W > n_times

IntMin(a, b) == IF a < b THEN a ELSE b

IntMax(a, b) == IF a > b THEN a ELSE b

Term(k, i, j) == [x |-> k, W |-> i, n |-> j]

\* one row of np.zeros((n_freqs, n), dtype=np.complex128)
np_zeros(n) == [c \in 1..n |-> {}]

\* the full linear convolution of trial k with kernel i of length L
linear_conv(k, i, n_times, L) ==
    [p \in 1..(n_times + L - 1) |-> {Term(k, i, p - 1)}]

\* ifftn(fftn(x, [fsize]) * fftn(W, [fsize])): the circular convolution of
\* length fsize, sample p summing the linear samples j with j = p mod fsize
circular_conv(k, i, n_times, L, fsize) ==
    [p \in 1..fsize |->
        {Term(k, i, j) : j \in {jj \in 0..(n_times + L - 2) : jj % fsize = p - 1}}]

\* a Python index clipped as a slice bound of a sequence of length n
slice_bound(i, n) == IF i < 0 THEN IntMax(i + n, 0) ELSE IntMin(i, n)

\* arr[start:stop]
py_range(arr, start, stop) ==
    LET a == slice_bound(start, Len(arr))
        b == slice_bound(stop, Len(arr))
    IN  IF b <= a THEN <<>> ELSE SubSeq(arr, a + 1, b)

\* _centered(arr, newsize): the centre newsize samples of arr
centered(arr, newsize) ==
    LET startind == (Len(arr) - newsize) \div 2
        endind == startind + newsize
    IN  py_range(arr, startind, endind)

\* np.convolve(x, W, mode) for len(x) = n_times and len(W) = L
np_convolve(k, i, n_times, L, mode) ==
    LET conv == linear_conv(k, i, n_times, L)
        n == IntMin(n_times, L)
        length == IntMax(n_times, L)
        n_left == n \div 2
    IN  CASE mode = "full" -> conv
          [] mode = "same" -> py_range(conv, n - 1 - n_left, n - 1 - n_left + length)
          [] mode = "valid" -> py_range(conv, n - 1, length)

\* max(W.size for W in Ws)
Ws_max_size(Ws) == CHOOSE m \in {Ws[i] : i \in 1..Len(Ws)} :
                       \A i \in 1..Len(Ws) : Ws[i] <= m

fft_size_of_signal(n_times, max_size) == Pow2AtLeast(1, n_times)

\* size = n_times + Ws_max_size - 1; fsize = 2 ** int(np.ceil(np.log2(size)))
fft_size(n_times, max_size) == Pow2AtLeast(1, n_times + max_size - 1)

\* a / b of two integers, a >= 0 and b > 0
py_divide(a, b, interpreter) ==
    [float |-> interpreter = 3, floor |-> a \div b]

\* target[...] = v for a target of n samples: v is broadcast, or numpy
\* raises ValueError (could not broadcast input array)
np_assign(n, v) ==
    IF Len(v) = n THEN [exc |-> "none", row |-> v]
    ELSE IF Len(v) = 1 THEN [exc |-> "none", row |-> [c \in 1..n |-> v[1]]]
    ELSE [exc |-> "ValueError: could not broadcast", row |-> <<>>]

\* row[start:stop] = v
np_assign_slice(row, start, stop, v) ==
    LET a == slice_bound(start, Len(row))
        b == IntMax(a, slice_bound(stop, Len(row)))
        got == np_assign(b - a, v)
    IN  IF got.exc # "none" THEN got
        ELSE [exc |-> "none",
              row |-> [c \in 1..Len(row) |->
                         IF c > a /\ c <= b THEN got.row[c - a] ELSE row[c]]]

\* the first column of  tfr[i, offset:(offset + sz)]
valid_offset(offset) == offset.floor

\* the row of the 'valid' branch, shared by both engines:
\*   sz = abs(W.size - n_times) + 1; offset = (n_times - sz) / 2
\*   tfr[i, offset:(offset + sz)] = v
valid_row(ncols, n_times, L, interpreter, v) ==
    LET sz == IntAbs(L - n_times) + 1
        offset == py_divide(n_times - sz, 2, interpreter)
    IN  IF offset.float
        THEN [exc |-> "TypeError: slice indices must be integers", row |-> <<>>]
        ELSE np_assign_slice(np_zeros(ncols), valid_offset(offset),
                             valid_offset(offset) + sz, v)

\* the columns of tfr in _cwt_fft
fft_ncols(mode, n_times, fsize) == IF mode = "full" THEN fsize ELSE n_times

\* _cwt_fft, row i of trial k
fft_row(k, i, a, fsize) ==
    LET L == a.Ws[i]
        conv_ret == py_range(circular_conv(k, i, a.n_times, L, fsize), 0,
                        a.n_times + L - 1)
        ncols == fft_ncols(a.mode, a.n_times, fsize)
    IN  IF a.mode = "valid"
        THEN valid_row(ncols, a.n_times, L, a.interpreter,
                       centered(conv_ret, IntAbs(L - a.n_times) + 1))
        ELSE np_assign(ncols, centered(conv_ret, a.n_times))

\* _cwt_convolve, row i of trial k, once the length test has passed
conv_row(k, i, a) ==
    LET L == a.Ws[i]
        conv_ret == np_convolve(k, i, a.n_times, L, a.mode)
    IN  IF a.mode = "valid"
        THEN valid_row(a.n_times, a.n_times, L, a.interpreter, conv_ret)
        ELSE np_assign(a.n_times, conv_ret)

\* the generator function is called: nothing of its body has run yet
CwtCall ==
    /\ cwtPc = "idle"
    /\ \E engine \in {"fft", "convolve"}, n_signals \in 0..MaxSignals,
          n_times \in 1..MaxKernel, Ws \in KernelBanks, mode \in Modes,
          interpreter \in Interpreters :
         cwtIn' = [engine |-> engine, n_signals |-> n_signals,
                   n_times |-> n_times, Ws |-> Ws, mode |-> mode,
                   interpreter |-> interpreter]
    /\ cwtPc' = "created"
    /\ UNCHANGED <<cwtK, cwtI, cwtYielded, cwtExc, cwtFsize, cwtTfr, cwtOut,
                   tfrVars, ctorVars, ioVars,
                   parVars, cohVars, stVars, frqVars, wavVars, entVars>>

\* _cwt_fft, first next(): fsize is chosen, then the loop that precomputes
\* the FFT of each kernel raises at the first kernel longer than the signal
FftPrecompute ==
    /\ cwtPc = "created"
    /\ cwtIn.engine = "fft"
    /\ cwtFsize' = fft_size(cwtIn.n_times, Ws_max_size(cwtIn.Ws))
    /\ IF \E i \in 1..Len(cwtIn.Ws) : too_long(cwtIn.Ws[i], cwtIn.n_times)
       THEN /\ cwtExc' = "ValueError"
            /\ cwtPc' = "raised"
       ELSE /\ cwtPc' = "trials"
            /\ UNCHANGED cwtExc
    /\ UNCHANGED <<cwtIn, cwtK, cwtI, cwtYielded, cwtTfr, cwtOut,
                   tfrVars, ctorVars, ioVars,
                   parVars, cohVars, stVars, frqVars, wavVars, entVars>>

\* _cwt_fft, one trial: every row of tfr is filled, then  yield tfr; the
\* first row whose assignment fails ends the generator
FftTrial ==
    /\ cwtPc = "trials"
    /\ cwtIn.engine = "fft"
    /\ cwtK < cwtIn.n_signals
    /\ LET rows == [i \in 1..Len(cwtIn.Ws) |->
                       fft_row(cwtK + 1, i, cwtIn, cwtFsize)]
           failed == {i \in 1..Len(cwtIn.Ws) : rows[i].exc # "none"}
       IN  IF failed = {}
           THEN /\ cwtK' = cwtK + 1
                /\ cwtYielded' = cwtYielded + 1
                /\ cwtOut' = Append(cwtOut, [i \in 1..Len(cwtIn.Ws) |-> rows[i].row])
                /\ UNCHANGED <<cwtPc, cwtExc>>
           ELSE /\ cwtExc' = rows[CHOOSE i \in failed :
                                     \A j \in failed : i <= j].exc
                /\ cwtPc' = "raised"
                /\ UNCHANGED <<cwtK, cwtYielded, cwtOut>>
    /\ UNCHANGED <<cwtIn, cwtI, cwtFsize, cwtTfr, tfrVars, ctorVars, ioVars,
                   parVars, cohVars, stVars, frqVars, wavVars, entVars>>

\* _cwt_convolve, first next(): the body enters  for x in X
ConvEnter ==
    /\ cwtPc = "created"
    /\ cwtIn.engine = "convolve"
    /\ cwtPc' = "trials"
    /\ UNCHANGED <<cwtIn, cwtK, cwtI, cwtYielded, cwtExc, cwtFsize, cwtTfr,
                   cwtOut, tfrVars, ctorVars,
                   ioVars, parVars, cohVars, stVars, frqVars, wavVars, entVars>>

\* _cwt_convolve, one kernel of the current trial: np.convolve, then the
\* length test, then the row is stored
ConvKernel ==
    /\ cwtPc = "trials"
    /\ cwtIn.engine = "convolve"
    /\ cwtK < cwtIn.n_signals
    /\ cwtI < Len(cwtIn.Ws)
    /\ IF too_long(cwtIn.Ws[cwtI + 1], cwtIn.n_times)
       THEN /\ cwtExc' = "ValueError"
            /\ cwtPc' = "raised"
            /\ UNCHANGED <<cwtI, cwtTfr>>
       ELSE LET got == conv_row(cwtK + 1, cwtI + 1, cwtIn)
            IN  IF got.exc = "none"
                THEN /\ cwtI' = cwtI + 1
                     /\ cwtTfr' = Append(cwtTfr, got.row)
                     /\ UNCHANGED <<cwtExc, cwtPc>>
                ELSE /\ cwtExc' = got.exc
                     /\ cwtPc' = "raised"
                     /\ UNCHANGED <<cwtI, cwtTfr>>
    /\ UNCHANGED <<cwtIn, cwtK, cwtYielded, cwtFsize, cwtOut,
                   tfrVars, ctorVars, ioVars,
                   parVars, cohVars, stVars, frqVars, wavVars, entVars>>

\* _cwt_convolve: every kernel of the trial is done,  yield tfr
ConvYield ==
    /\ cwtPc = "trials"
    /\ cwtIn.engine = "convolve"
    /\ cwtK < cwtIn.n_signals
    /\ cwtI = Len(cwtIn.Ws)
    /\ cwtK' = cwtK + 1
    /\ cwtI' = 0
    /\ cwtYielded' = cwtYielded + 1
    /\ cwtOut' = Append(cwtOut, cwtTfr)
    /\ cwtTfr' = <<>>
    /\ UNCHANGED <<cwtIn, cwtPc, cwtExc, cwtFsize, tfrVars, ctorVars, ioVars,
                   parVars, cohVars, stVars, frqVars, wavVars, entVars>>

\* the loop over X ends: the generator is exhausted (StopIteration)
CwtStop ==
    /\ cwtPc = "trials"
    /\ cwtK = cwtIn.n_signals
    /\ cwtPc' = "exhausted"
    /\ UNCHANGED <<cwtIn, cwtK, cwtI, cwtYielded, cwtExc, cwtFsize, cwtTfr,
                   cwtOut, tfrVars, ctorVars,
                   ioVars, parVars, cohVars, stVars, frqVars, wavVars, entVars>>

NextCwt ==
    \/ CwtCall
    \/ FftPrecompute
    \/ FftTrial
    \/ ConvEnter
    \/ ConvKernel
    \/ ConvYield
    \/ CwtStop

SpecCwt == Init /\ [][NextCwt]_vars

----------------------------------------------------------------------------
(* SpecFrq: the frequency selection of _induced_power_stockwell.            *)
(* Frequencies are counted in half bins, sfreq / (2 * n_fft_): FFT bin k is  *)
(* the value 2 * k, the Nyquist frequency sfreq / 2 is the value n_fft_.     *)

\* fftpack.fftfreq(n, 1. / sfreq): bins 0 .. (n-1)//2, then -(n//2) .. -1
fftfreq(n) ==
    [i \in 1..n |-> IF i - 1 <= (n - 1) \div 2 THEN 2 * (i - 1)
                    ELSE 2 * ((i - 1) - n)]

RECURSIVE np_max_from(_, _, _)
np_max_from(a, i, best) ==
    IF i > Len(a) THEN best
    ELSE np_max_from(a, i + 1, IF a[i] > best THEN a[i] ELSE best)

\* freqs.max()
np_max(a) == np_max_from(a, 2, a[1])

\* freqs[freqs > 0], in the order of freqs
positive_part(a) == SelectSeq(a, LAMBDA x : x > 0)

RECURSIVE argmin_last_from(_, _, _, _)
argmin_last_from(a, b, i, best) ==
    IF i > Len(a) THEN best - 1
    ELSE argmin_last_from(a, b, i + 1,
            IF IntAbs(a[i] - b) <= IntAbs(a[best] - b) THEN i ELSE best)

RECURSIVE argmin_from(_, _, _, _)
\* the scan of np.argmin over np.abs(a - b): a later element replaces the
\* best one only when it is strictly smaller; the result is a 0-based index
argmin_from(a, b, i, best) ==
    IF i > Len(a) THEN best - 1
    ELSE argmin_from(a, b, i + 1,
            IF IntAbs(a[i] - b) < IntAbs(a[best] - b) THEN i ELSE best)

\* np.abs(freqs - bound).argmin()
nearest_bin(a, b) == argmin_from(a, b, 2, 1)

\* a[start:stop] for 0 <= start, stop <= len(a)
py_slice(a, start, stop) ==
    IF stop <= start THEN <<>> ELSE SubSeq(a, start + 1, stop)

\* len(np.arange(start_f, stop_f, 1)), the number of precomputed windows
arange_len(start, stop) == IF stop > start THEN stop - start ELSE 0

FrqBounds == {NoneInt} \cup {SomeInt(b) : b \in 0..(2 * MaxBins)}

\* freqs = fftpack.fftfreq(n_fft_, 1. / sfreq)
FrqCall ==
    /\ frqPc = "idle"
    /\ \E n \in 2..MaxBins, fmin \in FrqBounds, fmax \in FrqBounds :
         /\ frqIn' = [n_fft |-> n, fmin |-> fmin, fmax |-> fmax]
         /\ frqOut' = [NoFrqOut EXCEPT !.freqs = fftfreq(n)]
    /\ frqPc' = "freqs"
    /\ UNCHANGED <<tfrVars, ctorVars, ioVars, parVars, cohVars, stVars,
                   cwtVars, wavVars, entVars>>

\* if fmin is None: fmin = freqs[freqs > 0][0]
\* if fmax is None: fmax = freqs.max()
FrqDefaults ==
    /\ frqPc = "freqs"
    /\ IF ~frqIn.fmin.given /\ positive_part(frqOut.freqs) = <<>>
       THEN /\ frqOut' = [frqOut EXCEPT !.exc = "IndexError"]
            /\ frqPc' = "raised"
       ELSE /\ frqOut' = [frqOut EXCEPT
                 !.fmin = IF frqIn.fmin.given THEN frqIn.fmin.v
                          ELSE positive_part(frqOut.freqs)[1],
                 !.fmax = IF frqIn.fmax.given THEN frqIn.fmax.v
                          ELSE np_max(frqOut.freqs)]
            /\ frqPc' = "bounds"
    /\ UNCHANGED <<frqIn, tfrVars, ctorVars, ioVars, parVars, cohVars, stVars,
                   cwtVars, wavVars, entVars>>

\* start_f, stop_f, freqs = freqs[start_f:stop_f], W = _precompute_st_windows
FrqResolve ==
    /\ frqPc = "bounds"
    /\ LET start_f == nearest_bin(frqOut.freqs, frqOut.fmin)
           stop_f == nearest_bin(frqOut.freqs, frqOut.fmax)
       IN  frqOut' = [frqOut EXCEPT
                        !.start_f = start_f,
                        !.stop_f = stop_f,
                        !.axis = py_slice(frqOut.freqs, start_f, stop_f),
                        !.n_windows = arange_len(start_f, stop_f)]
    /\ frqPc' = "windows"
    /\ UNCHANGED <<frqIn, tfrVars, ctorVars, ioVars, parVars, cohVars, stVars,
                   cwtVars, wavVars, entVars>>

\* n_freq = stop_f - start_f; psd = np.empty((n_channels, n_freq, n_out)):
\* numpy refuses a negative dimension
FrqAlloc ==
    /\ frqPc = "windows"
    /\ LET n_freq == frqOut.stop_f - frqOut.start_f
       IN  IF n_freq < 0
           THEN /\ frqOut' = [frqOut EXCEPT !.exc = "ValueError", !.n_freq = n_freq]
                /\ frqPc' = "raised"
           ELSE /\ frqOut' = [frqOut EXCEPT !.n_freq = n_freq]
                /\ frqPc' = "done"
    /\ UNCHANGED <<frqIn, tfrVars, ctorVars, ioVars, parVars, cohVars, stVars,
                   cwtVars, wavVars, entVars>>

NextFrq ==
    \/ FrqCall
    \/ FrqDefaults
    \/ FrqResolve
    \/ FrqAlloc

SpecFrq == Init /\ [][NextFrq]_vars

----------------------------------------------------------------------------
(* SpecWav: morlet and _dpss_wavelet. A kernel is kept as the frequency,    *)
(* the cycle count and the taper it is built from. time_bandwidth is counted *)
(* in halves: tb2 = 2 * time_bandwidth.                                      *)

FreqValues == {1, 2}

SeqsUpTo(S, n) == UNION {[1..k -> S] : k \in 0..n}

\* the kernel built for frequency f with this_n_cycles cycles (and taper m
\* of dpss_windows; 0 for a Morlet kernel)
Kernel(f, this_n_cycles, m) == [f |-> f, n_cycles |-> this_n_cycles, taper |-> m]

\* (n_cycles.size != 1) and (n_cycles.size != len(freqs))
bad_n_cycles(n_cycles, freqs) ==
    Len(n_cycles) # 1 /\ Len(n_cycles) # Len(freqs)

this_n_cycles_first(n_cycles, k) == n_cycles[1]

\* this_n_cycles = n_cycles[k] if len(n_cycles) != 1 else n_cycles[0]
this_n_cycles(n_cycles, k) ==
    IF Len(n_cycles) # 1 THEN n_cycles[k] ELSE n_cycles[1]

n_taps_ceil(tb2) == tb2 \div 2

\* n_taps = int(np.floor(time_bandwidth - 1))
n_taps_of(tb2) == (tb2 - 2) \div 2

\* time_bandwidth < 2.0
bandwidth_too_small(tb2) == tb2 < 4

\* The samples of a kernel are not kept; its energy is: the squared L2 norm,
\* an exact ratio num / den, or NaN once a 0 / 0 has happened.
RECURSIVE gcd(_, _)
gcd(a, b) == IF b = 0 THEN a ELSE gcd(b, a % b)

NaNRatio == [nan |-> TRUE, num |-> 0, den |-> 0]

Ratio(n, d) ==
    IF d = 0 THEN NaNRatio
    ELSE [nan |-> FALSE, num |-> n \div gcd(n, d), den |-> d \div gcd(n, d)]

\* the squared norms an unnormalised kernel that is not identically zero
\* can have
RawEnergies == 1..MaxEnergy

\* t = np.arange(0., t_win, 1.0 / sfreq) with t_win = this_n_cycles / f, at
\* one sample per time unit: ceil(this_n_cycles / f) samples
dpss_n_samples(f, n) == (n + f - 1) \div f

\* Wk -= Wk.mean() leaves a one-sample kernel identically zero; the Morlet
\* offset exp(-2 (pi f sigma_t)^2) is below 1, so W(0) is never zero
identically_zero(builder, f, n, zero_mean) ==
    builder = "dpss" /\ zero_mean /\ dpss_n_samples(f, n) = 1

norm_scale_sq_unit(s) == [num |-> s, den |-> 1]

\* the square of the divisor  sqrt(0.5) * linalg.norm(W.ravel())  for a
\* kernel of squared norm s
norm_scale_sq(s) == [num |-> s, den |-> 2]

\* W /= c : the squared norm s divided by c squared
divide_sq(s, c2) == Ratio(s * c2.den, c2.num)

\* the squared norm of the kernel after  W /= sqrt(0.5) * linalg.norm(W)
normalised_sq(s) == divide_sq(s, norm_scale_sq(s))

\* the energies the unnormalised kernel can have
raw_energies(builder, f, n, zero_mean) ==
    IF identically_zero(builder, f, n, zero_mean) THEN {0} ELSE RawEnergies

\* the builder is called: Ws = list(), n_cycles = np.atleast_1d(n_cycles)
WavCall ==
    /\ wavPc = "idle"
    /\ \E builder \in {"morlet", "dpss"}, freqs \in SeqsUpTo(FreqValues, MaxFreqs),
          n_cycles \in SeqsUpTo({1, 2}, MaxFreqs + 1), tb2 \in 0..MaxTb2,
          zero_mean \in BOOLEAN :
         /\ builder = "morlet" => tb2 = 0
         /\ wavIn' = [builder |-> builder, freqs |-> freqs, n_cycles |-> n_cycles,
                      tb2 |-> tb2, zero_mean |-> zero_mean]
    /\ wavPc' = "check"
    /\ UNCHANGED <<wavOut, tfrVars, ctorVars, ioVars, parVars, cohVars, stVars,
                   cwtVars, frqVars, entVars>>

\* the argument checks: time_bandwidth first (_dpss_wavelet), then n_cycles
WavCheck ==
    /\ wavPc = "check"
    /\ IF \/ wavIn.builder = "dpss" /\ bandwidth_too_small(wavIn.tb2)
          \/ bad_n_cycles(wavIn.n_cycles, wavIn.freqs)
       THEN /\ wavOut' = [wavOut EXCEPT !.exc = "ValueError"]
            /\ wavPc' = "raised"
       ELSE /\ wavOut' = [wavOut EXCEPT !.n_taps =
                             IF wavIn.builder = "dpss" THEN n_taps_of(wavIn.tb2)
                             ELSE 0]
            /\ wavPc' = "loop"
    /\ UNCHANGED <<wavIn, tfrVars, ctorVars, ioVars, parVars, cohVars, stVars,
                   cwtVars, frqVars, entVars>>

\* morlet: one iteration of  for k, f in enumerate(freqs), Ws.append(W)
MorletKernel ==
    /\ wavPc = "loop"
    /\ wavIn.builder = "morlet"
    /\ Len(wavOut.Ws) < Len(wavIn.freqs)
    /\ LET k == Len(wavOut.Ws) + 1
           W == Kernel(wavIn.freqs[k], this_n_cycles(wavIn.n_cycles, k), 0)
       IN  \E s \in raw_energies("morlet", W.f, W.n_cycles, wavIn.zero_mean) :
             wavOut' = [wavOut EXCEPT
                !.Ws = Append(@, W),
                !.norms = @ \cup {[kernel |-> W, sq |-> normalised_sq(s)]}]
    /\ UNCHANGED <<wavIn, wavPc, tfrVars, ctorVars, ioVars, parVars, cohVars,
                   stVars, cwtVars, frqVars, entVars>>

\* _dpss_wavelet: one iteration of the inner loop over freqs, Wm.append(Wk)
DpssKernel ==
    /\ wavPc = "loop"
    /\ wavIn.builder = "dpss"
    /\ Len(wavOut.Ws) < wavOut.n_taps
    /\ Len(wavOut.Wm) < Len(wavIn.freqs)
    /\ LET k == Len(wavOut.Wm) + 1
           m == Len(wavOut.Ws) + 1
           Wk == Kernel(wavIn.freqs[k], this_n_cycles(wavIn.n_cycles, k), m)
       IN  \E s \in raw_energies("dpss", Wk.f, Wk.n_cycles, wavIn.zero_mean) :
             wavOut' = [wavOut EXCEPT
                !.Wm = Append(@, Wk),
                !.norms = @ \cup {[kernel |-> Wk, sq |-> normalised_sq(s)]}]
    /\ UNCHANGED <<wavIn, wavPc, tfrVars, ctorVars, ioVars, parVars, cohVars,
                   stVars, cwtVars, frqVars, entVars>>

\* _dpss_wavelet: the inner loop is over, Ws.append(Wm)
DpssRow ==
    /\ wavPc = "loop"
    /\ wavIn.builder = "dpss"
    /\ Len(wavOut.Ws) < wavOut.n_taps
    /\ Len(wavOut.Wm) = Len(wavIn.freqs)
    /\ wavOut' = [wavOut EXCEPT !.Ws = Append(@, wavOut.Wm), !.Wm = <<>>]
    /\ UNCHANGED <<wavIn, wavPc, tfrVars, ctorVars, ioVars, parVars, cohVars,
                   stVars, cwtVars, frqVars, entVars>>

\* return Ws
WavReturn ==
    /\ wavPc = "loop"
    /\ IF wavIn.builder = "morlet" THEN Len(wavOut.Ws) = Len(wavIn.freqs)
       ELSE Len(wavOut.Ws) >= wavOut.n_taps
    /\ wavPc' = "done"
    /\ UNCHANGED <<wavIn, wavOut, tfrVars, ctorVars, ioVars, parVars, cohVars,
                   stVars, cwtVars, frqVars, entVars>>

NextWav ==
    \/ WavCall
    \/ WavCheck
    \/ MorletKernel
    \/ DpssKernel
    \/ DpssRow
    \/ WavReturn

SpecWav == Init /\ [][NextWav]_vars

----------------------------------------------------------------------------
(* SpecEnt: tfr_morlet, tfr_multitaper and tfr_stockwell from the source    *)
(* container to the returned AverageTFR instances. An element of a result   *)
(* array is kept as what it was computed from: the quantity, the channel,    *)
(* the frequency of the kernel (or FFT bin, in half bins) of its row and the *)
(* input sample of its column.                                               *)

\* _get_data(inst, return_itc): the exception raised, or the number of
\* trials of the returned data
get_data_no_check(kind, n_epochs, return_itc) ==
    [exc |-> "none", n_trials |-> IF kind = "Epochs" THEN n_epochs ELSE 1]

get_data(kind, n_epochs, return_itc) ==
    IF kind \notin {"Epochs", "Evoked"}
    THEN [exc |-> "TypeError", n_trials |-> 0]
    ELSE IF kind = "Epochs"
    THEN [exc |-> "none", n_trials |-> n_epochs]
    ELSE IF return_itc
    THEN [exc |-> "ValueError", n_trials |-> 0]
    ELSE [exc |-> "none", n_trials |-> 1]

Element(q, c, f, t) == [q |-> q, ch |-> c, f |-> f, t |-> t]

\* the array of shape (n_channels, len(rows), len(cols)) whose element
\* (c, i, j) comes from row label rows[i] and input sample cols[j]
ResultArray(q, n_channels, rows, cols) ==
    NdArray(<<n_channels, Len(rows), Len(cols)>>,
            [idx \in 1..(n_channels * Len(rows) * Len(cols)) |->
                LET j == (idx - 1) % Len(cols)
                    i == ((idx - 1) \div Len(cols)) % Len(rows)
                    c == (idx - 1) \div (Len(cols) * Len(rows))
                IN  Element(q, c + 1, rows[i + 1], cols[j + 1])])

\* Ws = morlet(sfreq, frequencies, n_cycles): kernel k is built for
\* frequencies[k]; every taper row of _dpss_wavelet likewise
kernel_freqs_reversed(frequencies) ==
    [k \in 1..Len(frequencies) |-> frequencies[Len(frequencies) + 1 - k]]

kernel_freqs(frequencies) ==
    [k \in 1..Len(frequencies) |-> Kernel(frequencies[k], 1, 0).f]

\* _induced_power_cwt / _induced_power_mtm: row i of the array of a channel
\* is computed with kernel i, column j from sample j * decim
induced_power(n_channels, n_times, decim, frequencies) ==
    LET rows == kernel_freqs(frequencies)
        cols == st_slice_all(n_times, 0, decim)
    IN  [exc |-> "none",
         power |-> ResultArray("power", n_channels, rows, cols),
         itc |-> ResultArray("itc", n_channels, rows, cols),
         freqs |-> frequencies,
         n_windows |-> Len(rows)]

\* _induced_power_stockwell
induced_power_stockwell(n_channels, n_times, decim, n_fft, fmin, fmax, return_itc) ==
    LET checked == check_input_st([i \in 1..n_times |-> 1], n_fft)
        n_out == n_decim(n_times, decim)
        freqs == fftfreq(checked.n_fft)
        lo == IF fmin.given THEN fmin.v ELSE positive_part(freqs)[1]
        hi == IF fmax.given THEN fmax.v ELSE np_max(freqs)
        start_f == nearest_bin(freqs, lo)
        stop_f == nearest_bin(freqs, hi)
        rows == py_slice(fftfreq(checked.n_fft), start_f, stop_f)
        cols == st_slice(Len(checked.x_in), checked.zero_pad.v, decim)
    IN  IF checked.exc # "none" THEN [NoArrays EXCEPT !.exc = checked.exc]
        ELSE IF checked.returns = "None" THEN [NoArrays EXCEPT !.exc = "TypeError"]
        ELSE IF ~fmin.given /\ positive_part(freqs) = <<>>
        THEN [NoArrays EXCEPT !.exc = "IndexError"]
        ELSE IF stop_f - start_f < 0 THEN [NoArrays EXCEPT !.exc = "ValueError"]
        ELSE [exc |-> "none",
              power |-> ResultArray("power", n_channels, rows, cols),
              itc |-> IF return_itc
                      THEN ResultArray("itc", n_channels, rows, cols)
                      ELSE <<>>,
              freqs |-> rows,
              n_windows |-> arange_len(start_f, stop_f)]

returns_pair(return_itc) == "pair"

\* out is the power container, or the pair (power, itc) if return_itc
returns_of(return_itc) == IF return_itc THEN "pair" ELSE "single"

\* the method label of the containers of a transform
method_of(transform, q) ==
    IF transform = "morlet" THEN <<"morlet", q>>
    ELSE IF transform = "multitaper" THEN <<"mutlitaper", q>>
    ELSE <<"stockwell", q>>

EntFreqs == UNION {[1..n -> FreqValues] : n \in {1, 2, 3}}

EntFft == {NoneInt, SomeInt(4), SomeInt(8)}

EntBounds == {NoneInt, SomeInt(2), SomeInt(5)}

\* an entry point is called
EntCall ==
    /\ entPc = "idle"
    /\ \E transform \in Transforms, kind \in {"Epochs", "Evoked", "Raw"},
          n_epochs \in {1, 2}, n_channels \in {1, 2}, n_times \in {3, 4},
          decim \in {1, 2}, return_itc \in BOOLEAN, freqs \in EntFreqs \cup {<<>>},
          n_fft \in EntFft, fmin \in EntBounds, fmax \in EntBounds :
         /\ IF transform = "stockwell" THEN freqs = <<>>
            ELSE freqs # <<>> /\ n_fft = NoneInt /\ fmin = NoneInt /\ fmax = NoneInt
         /\ entIn' = [transform |-> transform, kind |-> kind, n_epochs |-> n_epochs,
                      n_channels |-> n_channels, n_times |-> n_times,
                      decim |-> decim, return_itc |-> return_itc, freqs |-> freqs,
                      n_fft |-> n_fft, fmin |-> fmin, fmax |-> fmax]
    /\ entPc' = "called"
    /\ UNCHANGED <<entOut, entHeap, entRefs, entMut, tfrVars, ctorVars, ioVars, parVars, cohVars, stVars,
                   cwtVars, frqVars, wavVars>>

\* data = _get_data(inst, return_itc), the first statement of each entry point
EntGetData ==
    /\ entPc = "called"
    /\ LET r == get_data(entIn.kind, entIn.n_epochs, entIn.return_itc)
       IN  /\ entOut' = [entOut EXCEPT !.exc = r.exc, !.n_trials = r.n_trials]
           /\ entPc' = IF r.exc = "none" THEN "data" ELSE "raised"
    /\ UNCHANGED <<entIn, entHeap, entRefs, entMut, tfrVars, ctorVars, ioVars, parVars, cohVars, stVars,
                   cwtVars, frqVars, wavVars>>

\* power, itc = _induced_power_*(data, ...): the kernels are built and one
\* task per channel (and per taper) is run
EntTransform ==
    /\ entPc = "data"
    /\ LET n_taps == IF entIn.transform = "multitaper" THEN n_taps_of(MaxTb2) ELSE 1
           r == IF entIn.transform = "stockwell"
                THEN induced_power_stockwell(entIn.n_channels, entIn.n_times,
                         entIn.decim, entIn.n_fft, entIn.fmin, entIn.fmax,
                         entIn.return_itc)
                ELSE induced_power(entIn.n_channels, entIn.n_times, entIn.decim,
                                   entIn.freqs)
       IN  /\ entOut' = [entOut EXCEPT
                 !.exc = r.exc,
                 !.arrays = r,
                 !.kernels_built = IF r.exc = "none" THEN n_taps * r.n_windows ELSE 0,
                 !.tasks_run = IF r.exc = "none" THEN n_taps * entIn.n_channels ELSE 0]
           /\ entPc' = IF r.exc = "none" THEN "computed" ELSE "raised"
    /\ UNCHANGED <<entIn, entHeap, entRefs, entMut, tfrVars, ctorVars, ioVars, parVars, cohVars, stVars,
                   cwtVars, frqVars, wavVars>>

\* An object on the heap: its value and the in-place writes made to it
\* since the entry point returned
Cell(v) == [v |-> v, writes |-> 0]

ContainerFields == {"info", "data", "times", "freqs"}

\* the objects at hand when the containers are made: info = pick_info(...),
\* the two arrays the engine returned, times = inst.times[::decim].copy(),
\* freqs; and the copies tfr_stockwell makes for its itc container
wrap_heap(info, power, itc_data, times, freqs) ==
    <<Cell(info), Cell(power), Cell(itc_data), Cell(times), Cell(freqs),
      Cell(info), Cell(times), Cell(freqs)>>

\* AverageTFR(info, power, times, freqs, nave, ...): __init__ keeps the
\* objects it is given
power_refs == [info |-> 1, data |-> 2, times |-> 4, freqs |-> 5]

\* AverageTFR(info, itc, times, freqs, ...) in tfr_morlet and tfr_multitaper,
\* AverageTFR(deepcopy(info), itc, times.copy(), freqs.copy(), ...) in
\* tfr_stockwell
itc_refs(transform) ==
    IF transform = "stockwell"
    THEN [info |-> 6, data |-> 3, times |-> 7, freqs |-> 8]
    ELSE [info |-> 1, data |-> 3, times |-> 4, freqs |-> 5]

\* times = inst.times[::decim].copy(); nave = len(data);
\* out = AverageTFR(...), and the pair with the itc container if return_itc
EntWrap ==
    /\ entPc = "computed"
    /\ LET times == Arr1(Decimate([i \in 1..entIn.n_times |-> i - 1],
                                  entIn.n_times, entIn.decim))
           freqs == Arr1(entOut.arrays.freqs)
           nave == entOut.n_trials
           out_power == AverageTFR_init(Info(entIn.n_channels), entOut.arrays.power,
                        times, freqs, nave, "None",
                        method_of(entIn.transform, "power"))
           out_itc == IF entIn.return_itc
                  THEN AverageTFR_init(Info(entIn.n_channels), entOut.arrays.itc,
                           times, freqs, nave, "None",
                           method_of(entIn.transform, "itc"))
                  ELSE [exc |-> "none", fields |-> NoFields]
       IN  IF out_power.exc # "none" \/ out_itc.exc # "none"
           THEN /\ entOut' = [entOut EXCEPT !.exc = "ValueError"]
                /\ entPc' = "raised"
                /\ UNCHANGED <<entHeap, entRefs>>
           ELSE /\ entOut' = [entOut EXCEPT
                      !.returns = returns_of(entIn.return_itc),
                      !.power = out_power.fields,
                      !.itc = out_itc.fields]
                /\ entHeap' = wrap_heap(Info(entIn.n_channels), entOut.arrays.power,
                                        entOut.arrays.itc, times, freqs)
                /\ entRefs' = [power |-> power_refs,
                               itc |-> IF entIn.return_itc THEN itc_refs(entIn.transform)
                                       ELSE NoRefs]
                /\ entPc' = "done"
    /\ UNCHANGED <<entIn, entMut, tfrVars, ctorVars, ioVars, parVars, cohVars,
                   stVars, cwtVars, frqVars, wavVars>>

\* the caller changes, in place, one field of one of the two containers it
\* was returned (power.times += 1, itc.info['bads'].append(...), ...)
EntMutate ==
    /\ entPc = "done"
    /\ entOut.returns = "pair"
    /\ \E who \in {"power", "itc"}, field \in ContainerFields :
         /\ entHeap' = [entHeap EXCEPT ![entRefs[who][field]].writes = @ + 1]
         /\ entMut' = [who |-> who, field |-> field]
    /\ entPc' = "mutated"
    /\ UNCHANGED <<entIn, entOut, entRefs, tfrVars, ctorVars, ioVars, parVars,
                   cohVars, stVars, cwtVars, frqVars, wavVars>>

NextEnt ==
    \/ EntCall
    \/ EntGetData
    \/ EntTransform
    \/ EntWrap
    \/ EntMutate

SpecEnt == Init /\ [][NextEnt]_vars

----------------------------------------------------------------------------
(* Claims about the container *)

\* the arguments of the last constructor call do not describe a container
CtorMismatch ==
    \/ ndim(ctorIn.data) # 3
    \/ ctorIn.data.shape[1] # Len(ctorIn.info.chs)
    \/ ctorIn.data.shape[2] # Len(ctorIn.freqs.flat)
    \/ ctorIn.data.shape[3] # Len(ctorIn.times.flat)

\* C1: constructing an AverageTFR raises ValueError and yields no container
\* when data is not 3-D or one of its axes does not match the channels, the
\* frequencies or the times; on every other input it succeeds and stores
\* info, data, times, freqs, nave, comment and method exactly as given.
C1_CtorValidates ==
    ctorOut.exc # "idle" =>
        IF CtorMismatch
        THEN ctorOut.exc = "ValueError" /\ ctorOut.fields = NoFields
        ELSE ctorOut.exc = "none" /\ ctorOut.fields = ctorIn

\* a 3-D array over the right channels and frequencies whose time axis is
\* off was rejected
C1_Witness ==
    /\ ctorOut.exc = "ValueError"
    /\ ndim(ctorIn.data) = 3
    /\ ctorIn.data.shape[1] = Len(ctorIn.info.chs)
    /\ ctorIn.data.shape[2] = Len(ctorIn.freqs.flat)
    /\ ctorIn.data.shape[3] # Len(ctorIn.times.flat)

\* C2: after any sequence of + - += -= copy apply_baseline, failed or not,
\* every container (built by the caller or returned by a call) has
\* data.shape = (len(info['chs']), len(freqs), len(times)).
C2_ShapeInvariant ==
    \A o \in ObjIds :
        DataOf(o).shape =
            <<Len(InfoOf(o).chs), Len(FreqsOf(o).flat), Len(TimesOf(o).flat)>>

\* an in-place combination went through although the operands' axes differ
\* (numpy broadcast the right operand into the left one)
C2_Witness ==
    /\ last.op \in {"iadd", "isub"}
    /\ last.exc = "none"
    /\ ~last.axesEq

\* C3 (as claimed): + - += -= on two containers whose time or frequency axes
\* are not identical end in an error, and a call that ends in an error
\* changes no container.
C3_IncompatibleRejected ==
    [][(nops' = nops + 1 /\ last'.op \in {"add", "sub", "iadd", "isub"}) =>
          /\ ~last'.axesEq => last'.exc # "none"
          /\ last'.exc # "none" => (heap' = heap /\ objs' = objs)]_vars

\* C4: copy() shares no storage with the original: an in-place call (+=, -=,
\* apply_baseline) on a copy leaves every field of the original as it was,
\* and one on the original leaves the copy as it was.
C4_CopyIndependent ==
    [][\A x \in ObjIds, y \in ObjIds :
          (/\ nops' = nops + 1
           /\ last'.op \in {"iadd", "isub", "apply_baseline"}
           /\ last'.lhs = x
           /\ y # x
           /\ (prov[x].copyOf = y \/ prov[y].copyOf = x))
          => FieldsIn(heap', objs', y) = FieldsIn(heap, objs, y)]_vars

\* += succeeded on a copy
C4_Witness ==
    /\ last.op = "iadd"
    /\ last.exc = "none"
    /\ prov[last.lhs].copyOf # 0
    /\ DataOf(last.lhs) # DataOf(prov[last.lhs].copyOf)

\* C5: for two containers A and B with identical axes and equal data shape,
\* (A + B) - B has A's data, and A += B followed by A -= B restores A's data.
C5_AddSubRoundTrip ==
    (last.rt /\ last.exc = "none") => DataOf(last.out).flat = last.expect

\* (A + B) - B was computed
C5_Witness ==
    /\ last.op = "sub"
    /\ last.rt
    /\ last.exc = "none"
    /\ last.expect # <<>>

\* the data, axes, trial count, comment and method of a container
RoundTripFields(t) ==
    [data |-> t.data, times |-> t.times, freqs |-> t.freqs, nave |-> t.nave,
     comment |-> t.comment, method |-> t.method]

\* C6 (as claimed): write_tfrs of one container or of a list, then read_tfrs
\* with condition=None, returns one container per written container, in the
\* written order, each with the data, times, freqs, nave, comment and method
\* of the written one.
C6_WriteReadRoundTrip ==
    (ioOut.exc # "idle" /\ ~ioOut.cond.given) =>
        /\ ioOut.exc = "none"
        /\ Len(ioOut.tfrs) = Len(ioArg.tfrs)
        /\ \A i \in 1..Len(ioArg.tfrs) :
             RoundTripFields(ioOut.tfrs[i]) = RoundTripFields(ioArg.tfrs[i])

\* the slot of channel c after a strictly sequential run: the values of the
\* tasks given channel c's slice, one per taper in taper order, over n_taps
SequentialSlot(c) ==
    [written |-> TRUE,
     terms |-> [m \in 1..parIn.n_taps |-> TaskValue(c, m)],
     div |-> parIn.n_taps]

\* C7: in the channel map of Morlet, multitaper and Stockwell, for every
\* worker count and every completion order, slot c of the returned power and
\* coherence arrays holds exactly the result of the task submitted for
\* channel c, as in a sequential run.
C7_SlotHoldsOwnTask ==
    parOut.status = "returned" =>
        /\ parOut.power = [c \in 1..parIn.n_channels |-> SequentialSlot(c)]
        /\ parOut.itc = IF parIn.return_itc
                        THEN [c \in 1..parIn.n_channels |-> SequentialSlot(c)]
                        ELSE <<>>

\* a call with two workers returned both arrays although a later channel's
\* task completed before an earlier one's
C7_Witness ==
    /\ parOut.status = "returned"
    /\ parIn.n_jobs >= 2
    /\ parIn.return_itc
    /\ \E i, j \in 1..Len(finished) : i < j /\ finished[i] > finished[j]

\* C8: if the task of any channel (in any taper iteration) fails, the entry
\* point raises and returns neither a container nor a partially filled
\* array, however many other tasks had completed.
C8_FailureRaises ==
    /\ parOut.status = "returned" => parIn.fails = {}
    /\ (pc \in {"raised", "done"} /\ parIn.fails # {}) =>
          parOut = [status |-> "raised", power |-> <<>>, itc |-> <<>>]

\* a task failed in the second taper iteration, after another task of that
\* iteration had completed
C8_Witness ==
    /\ pc = "raised"
    /\ parOut.status = "raised"
    /\ round = 2
    /\ finished # <<>>

\* C9 (as claimed): for all inputs, zero-magnitude coefficients included,
\* every element of the coherence array returned by the wavelet reduction and
\* by the Stockwell engine lies in [0, 1].
C9_CoherenceInUnitInterval ==
    (cohPc = "done" /\ cohOut.has_plf) =>
        \A t \in 1..Len(cohOut.plf) : InUnitInterval(cohOut.plf[t])

\* C10 (as claimed): for every requested n_fft smaller than n_times, power
\* of two or not, the Stockwell transform raises ValueError and computes
\* nothing; it never substitutes another FFT length.
C10_ShortFftRaises ==
    (stPc # "idle" /\ stPc # "check" /\ stIn.n_fft.given
        /\ stIn.n_fft.v < stIn.n_times) =>
        /\ stOut.exc = "ValueError"
        /\ stPc = "raised"

\* some kernel of the bank is strictly longer than the signal
SomeKernelTooLong == \E i \in 1..Len(cwtIn.Ws) : cwtIn.Ws[i] > cwtIn.n_times

\* C11 (as claimed): for every batch, of any number of trials, and every bank
\* with a kernel strictly longer than n_times, both engines raise ValueError
\* without yielding any per-trial array; a bank whose kernels are all of
\* length <= n_times raises no such error.
C11_TooLongKernelRaises ==
    /\ (cwtPc # "idle" /\ SomeKernelTooLong) =>
          /\ cwtYielded = 0
          /\ cwtPc \in {"raised", "exhausted"} => cwtExc = "ValueError"
    /\ (cwtPc # "idle" /\ ~SomeKernelTooLong) => cwtExc = "none"

\* the FFT length in use equals the signal length: n_fft == n_times, or
\* n_fft is None and n_times is a power of two
FftEqualsSignal ==
    IF stIn.n_fft.given THEN stIn.n_fft.v = stIn.n_times
    ELSE next_power_of_two(stIn.n_times) = stIn.n_times

\* C12 (as claimed): when n_times equals the FFT length in use, the Stockwell
\* transform pads nothing, raises no error and returns power with
\* ceil(n_times / decim) time samples.
C12_EqualLengthNoPad ==
    (stPc \in {"raised", "checked", "done"} /\ FftEqualsSignal) =>
        /\ stOut.exc = "none"
        /\ ~stOut.zero_pad.given
        /\ stPc = "done" => stOut.task_n_out = n_decim(stIn.n_times, stIn.decim)

LastPositiveBin == (frqIn.n_fft - 1) \div 2

\* C15 (as claimed): an unspecified fmin resolves to the smallest positive
\* FFT frequency and an unspecified fmax to the Nyquist frequency sfreq / 2;
\* with both defaults the axis spans from the smallest positive FFT
\* frequency up to Nyquist.
C15_DefaultBand ==
    /\ (frqPc \in {"raised", "bounds", "windows", "done"} /\ ~frqIn.fmin.given) =>
          /\ frqOut.exc # "IndexError"
          /\ frqOut.fmin = 2
    /\ (frqPc \in {"bounds", "windows", "done"} /\ ~frqIn.fmax.given) =>
          frqOut.fmax = frqIn.n_fft
    /\ (frqPc = "done" /\ ~frqIn.fmin.given /\ ~frqIn.fmax.given) =>
          /\ frqOut.axis # <<>>
          /\ frqOut.axis[1] = 2
          /\ frqOut.axis[Len(frqOut.axis)] = frqIn.n_fft

\* i is the 0-based index of an FFT frequency nearest to b, and no earlier
\* frequency is as near
FirstNearest(i, b) ==
    /\ i \in 0..(frqIn.n_fft - 1)
    /\ \A j \in 0..(frqIn.n_fft - 1) :
         /\ IntAbs(frqOut.freqs[i + 1] - b) <= IntAbs(frqOut.freqs[j + 1] - b)
         /\ j < i => IntAbs(frqOut.freqs[i + 1] - b) < IntAbs(frqOut.freqs[j + 1] - b)

\* b lies within the positive FFT frequencies
WithinPositive(b) == 2 <= b /\ b <= 2 * LastPositiveBin

\* C16: fmin and fmax are each resolved to the index of the FFT frequency
\* nearest to the bound, the lowest index winning a tie; for a bound within
\* the positive FFT frequencies the resolved frequency is at most half a bin
\* from the bound.
C16_NearestBinFirstWins ==
    frqPc \in {"windows", "done", "raised"} /\ frqOut.exc # "IndexError" =>
        /\ FirstNearest(frqOut.start_f, frqOut.fmin)
        /\ FirstNearest(frqOut.stop_f, frqOut.fmax)
        /\ WithinPositive(frqOut.fmin) =>
             IntAbs(frqOut.freqs[frqOut.start_f + 1] - frqOut.fmin) <= 1
        /\ WithinPositive(frqOut.fmax) =>
             IntAbs(frqOut.freqs[frqOut.stop_f + 1] - frqOut.fmax) <= 1

\* fmin lies midway between bins 1 and 2 and is resolved to bin 1; fmax lies
\* midway between bins 2 and 3 and is resolved to bin 2
C16_Witness ==
    /\ frqPc = "done"
    /\ frqIn.n_fft = 8
    /\ frqIn.fmin = SomeInt(3)
    /\ frqIn.fmax = SomeInt(5)
    /\ frqOut.start_f = 1
    /\ frqOut.stop_f = 2

\* the kernel that frequency k must get
KernelFor(k, m) ==
    Kernel(wavIn.freqs[k],
           IF Len(wavIn.n_cycles) = 1 THEN wavIn.n_cycles[1] ELSE wavIn.n_cycles[k],
           m)

\* C17: both builders raise ValueError and return no kernel when the length
\* of n_cycles is neither 1 nor len(freqs); with length 1 the single value is
\* used for every frequency, with length len(freqs) kernel k uses n_cycles[k].
C17_CycleCountLength ==
    /\ (wavPc \in {"raised", "loop", "done"}
          /\ Len(wavIn.n_cycles) # 1 /\ Len(wavIn.n_cycles) # Len(wavIn.freqs)) =>
          /\ wavPc = "raised"
          /\ wavOut.exc = "ValueError"
          /\ wavOut.Ws = <<>>
    /\ (wavPc = "done" /\ wavIn.builder = "morlet") =>
          wavOut.Ws = [k \in 1..Len(wavIn.freqs) |-> KernelFor(k, 0)]
    /\ (wavPc = "done" /\ wavIn.builder = "dpss") =>
          \A m \in 1..Len(wavOut.Ws) :
             wavOut.Ws[m] = [k \in 1..Len(wavIn.freqs) |-> KernelFor(k, m)]

\* a DPSS bank of two tapers over two frequencies, each with its own cycle
\* count
C17_Witness ==
    /\ wavPc = "done"
    /\ wavIn.builder = "dpss"
    /\ wavIn.freqs = <<1, 2>>
    /\ wavIn.n_cycles = <<2, 1>>
    /\ Len(wavOut.Ws) = 2

\* C18: _dpss_wavelet raises ValueError for every time_bandwidth < 2.0; for
\* time_bandwidth >= 2.0 (and a valid n_cycles) it returns exactly
\* floor(time_bandwidth - 1) >= 1 rows, one per taper, each of len(freqs)
\* kernels in the order of freqs.
C18_TaperRows ==
    (wavIn.builder = "dpss" /\ wavPc \in {"raised", "loop", "done"}) =>
        /\ wavIn.tb2 < 4 => (wavPc = "raised" /\ wavOut.exc = "ValueError")
        /\ (wavIn.tb2 >= 4 /\ ~bad_n_cycles(wavIn.n_cycles, wavIn.freqs)) =>
             /\ wavPc # "raised"
             /\ wavPc = "done" =>
                  /\ Len(wavOut.Ws) >= 1
                  /\ 2 * Len(wavOut.Ws) <= wavIn.tb2 - 2
                  /\ 2 * (Len(wavOut.Ws) + 1) > wavIn.tb2 - 2
                  /\ \A m \in 1..Len(wavOut.Ws) :
                       /\ Len(wavOut.Ws[m]) = Len(wavIn.freqs)
                       /\ \A k \in 1..Len(wavIn.freqs) :
                            /\ wavOut.Ws[m][k].f = wavIn.freqs[k]
                            /\ wavOut.Ws[m][k].taper = m

\* time_bandwidth = 3.5 gives two taper rows of two kernels
C18_Witness ==
    /\ wavPc = "done"
    /\ wavIn.builder = "dpss"
    /\ wavIn.tb2 = 7
    /\ Len(wavIn.freqs) = 2
    /\ Len(wavOut.Ws) = 2

\* a sequence of numbers is non-decreasing or non-increasing
Monotonic(a) ==
    \/ \A i \in 1..(Len(a) - 1) : a[i] <= a[i + 1]
    \/ \A i \in 1..(Len(a) - 1) : a[i] >= a[i + 1]

\* every element of row i of a result array was computed with the kernel
\* (or FFT bin) of frequency axis[i]
RowsFollow(arr, axis) ==
    /\ arr.shape[2] = Len(axis)
    /\ \A idx \in 1..Len(arr.flat) :
         arr.flat[idx].f = axis[(((idx - 1) \div arr.shape[3]) % arr.shape[2]) + 1]

\* the Stockwell part of C14: the axis has as many frequencies as there are
\* FFT bins from the resolved fmin bin up to the resolved fmax bin, as many
\* as precomputed windows and as rows of power, and is monotonic
StockwellAxis ==
    (entPc = "done" /\ entIn.transform = "stockwell") =>
        LET n == Len(entOut.power.freqs.flat)
            first == entOut.power.freqs.flat[1] \div 2
        IN  /\ n = entOut.arrays.n_windows
            /\ n = entOut.power.data.shape[2]
            /\ \A i \in 1..n : entOut.power.freqs.flat[i] = 2 * (first + i - 1)
            /\ Monotonic(entOut.power.freqs.flat)
            /\ RowsFollow(entOut.power.data, entOut.power.freqs.flat)

\* C14 (as claimed): for every F passed to the Morlet or multitaper
\* transform the result's frequency axis has length len(F), is monotonic,
\* and row i is computed with the kernel built for F[i]; for Stockwell the
\* axis length is the number of FFT bins between the resolved bounds, the
\* number of windows and the frequency dimension of power, and the axis is
\* monotonic.
C14_AxisMonotonic ==
    /\ (entPc = "done" /\ entIn.transform # "stockwell") =>
          /\ Len(entOut.power.freqs.flat) = Len(entIn.freqs)
          /\ Monotonic(entOut.power.freqs.flat)
          /\ RowsFollow(entOut.power.data, entIn.freqs)
    /\ StockwellAxis

\* C14 (amended): for every F passed to the Morlet or multitaper transform
\* the result's frequency axis is F itself, in the order given (so it is
\* monotonic exactly when F is), and row i is computed with the kernel built
\* for F[i]; the Stockwell part is as claimed.
C14_AxisIsGivenOrder ==
    /\ (entPc = "done" /\ entIn.transform # "stockwell") =>
          /\ entOut.power.freqs.flat = entIn.freqs
          /\ Monotonic(entOut.power.freqs.flat) <=> Monotonic(entIn.freqs)
          /\ RowsFollow(entOut.power.data, entIn.freqs)
          /\ entIn.return_itc =>
               /\ entOut.itc.freqs.flat = entIn.freqs
               /\ RowsFollow(entOut.itc.data, entIn.freqs)
    /\ StockwellAxis

\* tfr_morlet returned for the frequencies 1, 2, 1
C14_Witness ==
    /\ entPc = "done"
    /\ entIn.transform = "morlet"
    /\ entIn.freqs = <<1, 2, 1>>
    /\ entOut.power.freqs.flat = <<1, 2, 1>>

\* C19: each entry point rejects its input before any kernel is built or any
\* task is run: TypeError for a source that is neither Epochs nor Evoked,
\* ValueError for Evoked with return_itc=True; Evoked with return_itc=False
\* is processed as a batch of exactly one trial.
C19_SourceRejectedFirst ==
    entPc \notin {"idle", "called"} =>
        /\ entIn.kind \notin {"Epochs", "Evoked"} =>
             /\ entPc = "raised"
             /\ entOut.exc = "TypeError"
             /\ entOut.kernels_built = 0 /\ entOut.tasks_run = 0
        /\ (entIn.kind = "Evoked" /\ entIn.return_itc) =>
             /\ entPc = "raised"
             /\ entOut.exc = "ValueError"
             /\ entOut.kernels_built = 0 /\ entOut.tasks_run = 0
        /\ (entIn.kind = "Evoked" /\ ~entIn.return_itc) =>
             /\ entOut.n_trials = 1
             /\ entPc = "done" => entOut.power.nave = 1

\* tfr_multitaper returned for an Evoked source
C19_Witness ==
    /\ entPc = "done"
    /\ entIn.kind = "Evoked"
    /\ entIn.transform = "multitaper"
    /\ entOut.tasks_run > 0
    /\ entOut.power.nave = 1

\* C20: an entry point returns one AverageTFR (power) when return_itc is
\* False and the pair (power, itc) when it is True; in the pair both have
\* equal times, equal freqs, equal data shape, and nave equal to the number
\* of trials of the batch.
C20_SingleOrPair ==
    entPc = "done" =>
        /\ ~entIn.return_itc =>
             /\ entOut.returns = "single"
             /\ entOut.power # NoFields
             /\ entOut.itc = NoFields
        /\ entIn.return_itc =>
             /\ entOut.returns = "pair"
             /\ entOut.power # NoFields /\ entOut.itc # NoFields
             /\ entOut.power.times = entOut.itc.times
             /\ entOut.power.freqs = entOut.itc.freqs
             /\ entOut.power.data.shape = entOut.itc.data.shape
             /\ entOut.power.nave = entOut.itc.nave
        /\ entOut.power.nave = IF entIn.kind = "Epochs" THEN entIn.n_epochs ELSE 1

\* tfr_stockwell returned a pair for two epochs, decimated by 2
C20_Witness ==
    /\ entPc = "done"
    /\ entIn.transform = "stockwell"
    /\ entIn.return_itc
    /\ entIn.n_epochs = 2
    /\ entIn.decim = 2
    /\ entOut.returns = "pair"
    /\ entOut.power.data.shape[2] >= 1

\* C21 (as stated): every kernel the Morlet and the DPSS builder return has
\* squared L2 norm 1/2, that is L2 norm sqrt(0.5).
C21_NormIsSqrtHalf ==
    wavPc = "done" =>
        \A e \in wavOut.norms : e.sq = [nan |-> FALSE, num |-> 1, den |-> 2]

\* C21 (amended): every kernel the Morlet and the DPSS builder return has
\* squared L2 norm 2, that is L2 norm sqrt(2) = 1 / sqrt(0.5), for every
\* frequency, cycle count and zero-mean setting, unless the unnormalised
\* kernel is identically zero (a one-sample zero-mean DPSS kernel), which
\* comes out as NaN.
C21_NormIsSqrtTwo ==
    /\ \A e \in wavOut.norms :
         IF identically_zero(wavIn.builder, e.kernel.f, e.kernel.n_cycles,
                             wavIn.zero_mean)
         THEN e.sq = NaNRatio
         ELSE e.sq = [nan |-> FALSE, num |-> 2, den |-> 1]
    /\ wavPc = "done" =>
         /\ \A k \in 1..Len(wavOut.Ws) :
              IF wavIn.builder = "morlet"
              THEN \E e \in wavOut.norms : e.kernel = wavOut.Ws[k]
              ELSE \A j \in 1..Len(wavOut.Ws[k]) :
                      \E e \in wavOut.norms : e.kernel = wavOut.Ws[k][j]

C21_Witness ==
    /\ wavPc = "done"
    /\ wavIn.builder = "dpss"
    /\ wavIn.zero_mean
    /\ \E e \in wavOut.norms : e.sq = NaNRatio
    /\ \E e \in wavOut.norms : e.sq = [nan |-> FALSE, num |-> 2, den |-> 1]

\* C22: for every n_times >= 1 and kernel bank, the FFT length _cwt_fft
\* chooses is a power of two, is at least n_times + max_kernel_length - 1 and
\* is the smallest such power of two, so that the circular convolution of
\* that length holds the full linear convolution of every kernel with the
\* signal, no two linear samples folded onto one.
C22_FftLengthCoversConvolution ==
    (cwtIn.engine = "fft" /\ cwtPc \in {"trials", "raised", "exhausted"}) =>
        LET size == cwtIn.n_times + Ws_max_size(cwtIn.Ws) - 1
        IN  /\ cwtFsize > 0
            /\ is_power_of_two(cwtFsize)
            /\ cwtFsize >= size
            /\ \A p \in 1..(cwtFsize - 1) : ~(is_power_of_two(p) /\ p >= size)
            /\ \A i \in 1..Len(cwtIn.Ws) :
                 LET L == cwtIn.Ws[i]
                     circ == circular_conv(1, i, cwtIn.n_times, L, cwtFsize)
                 IN  /\ \A p \in 1..Len(circ) : Cardinality(circ[p]) <= 1
                     /\ py_range(circ, 0, cwtIn.n_times + L - 1)
                           = linear_conv(1, i, cwtIn.n_times, L)

C22_Witness ==
    /\ cwtIn.engine = "fft"
    /\ cwtIn.mode = "same"
    /\ cwtIn.n_times = 3
    /\ cwtIn.Ws = <<3, 2>>
    /\ cwtFsize = 8
    /\ cwtYielded >= 1

\* C23 (as claimed): in mode 'full', for every kernel of length L <= n_times,
\* both engines return for each trial the uncropped linear convolution of
\* length n_times + L - 1 for that kernel, and raise nothing.
C23_FullModeUncropped ==
    (cwtPc # "idle" /\ cwtIn.mode = "full" /\ ~SomeKernelTooLong) =>
        /\ cwtExc = "none"
        /\ \A k \in 1..Len(cwtOut) : \A i \in 1..Len(cwtIn.Ws) :
              cwtOut[k][i] = linear_conv(k, i, cwtIn.n_times, cwtIn.Ws[i])

\* the row the claim gives for kernel i of trial k in the modes 'same' and
\* 'valid', as indices of the full linear convolution
ClaimedRow(k, i) ==
    LET L == cwtIn.Ws[i]
        first == (L - 1) \div 2
    IN  [c \in 1..cwtIn.n_times |->
           IF cwtIn.mode = "same" THEN {Term(k, i, first + c - 1)}
           ELSE IF c - 1 >= first /\ c - 1 < first + cwtIn.n_times - L + 1
                THEN {Term(k, i, L - 1 + (c - 1 - first))}
                ELSE {}]

\* C26 (as claimed): in the modes 'same' and 'valid' both engines yield, one
\* array per trial and in trial order, an array of shape (n_freqs, n_times)
\* whose row i holds the full-convolution samples (L_i - 1) // 2 onwards
\* ('same'), or the n_times - L_i + 1 edge-free samples L_i - 1 .. n_times - 1
\* from column (L_i - 1) // 2 on with zeros elsewhere ('valid').
C26_EnginesAgree ==
    (cwtPc # "idle" /\ cwtIn.mode \in {"same", "valid"} /\ ~SomeKernelTooLong) =>
        /\ cwtExc = "none"
        /\ \A k \in 1..Len(cwtOut) :
              cwtOut[k] = [i \in 1..Len(cwtIn.Ws) |-> ClaimedRow(k, i)]
        /\ Len(cwtOut) = cwtYielded
        /\ cwtPc = "exhausted" => Len(cwtOut) = cwtIn.n_signals

\* the results of channel c for the tapers 1..n, one each, in taper order
TaperTerms(c, n) == [m \in 1..n |-> TaskValue(c, m)]

\* C24: the multitaper result of each channel is the sum over all n_taps
\* tapers of that channel's per-taper power (and coherence) divided by
\* n_taps, each (taper, channel) result accumulated exactly once and into
\* that channel's slot only; the tapers run as successive fork-join rounds:
\* while tasks of taper m are pending or running, every slot holds exactly
\* the results of the tapers before m, and none of a later taper.
C24_TaperMean ==
    parIn.transform = "multitaper" =>
        /\ pc = "fork" =>
              /\ round <= parIn.n_taps
              /\ \A c \in 1..parIn.n_channels :
                    /\ psd[c].terms = TaperTerms(c, round - 1)
                    /\ itc[c].terms = TaperTerms(c, round - 1)
        /\ pc \in {"wrap", "done"} =>
              \A c \in 1..parIn.n_channels :
                 /\ psd[c] = [written |-> TRUE, terms |-> TaperTerms(c, parIn.n_taps),
                              div |-> parIn.n_taps]
                 /\ itc[c] = [written |-> TRUE, terms |-> TaperTerms(c, parIn.n_taps),
                              div |-> parIn.n_taps]
        /\ pc = "done" =>
              /\ parOut.power = psd
              /\ parIn.return_itc => parOut.itc = itc

C24_Witness ==
    /\ pc = "done"
    /\ parIn.transform = "multitaper"
    /\ parIn.n_taps = 2
    /\ parIn.n_channels = 2
    /\ parIn.n_jobs = 2
    /\ parIn.return_itc
    /\ parOut.itc[2].terms = <<TaskValue(2, 1), TaskValue(2, 2)>>

\* C25: for a fixed channel with n >= 1 trials, the reduction consumes each
\* per-trial coefficient array exactly once, in order, and returns as power
\* the sum over trials of |coef|^2 divided by n, taken at the time samples
\* 0, decim, 2 * decim, ...: power has ceil(n_times / decim) samples and is
\* non-negative everywhere.
C25_PowerIsMeanSquare ==
    (cohIn.engine = "wavelet" /\ cohPc \in {"loop", "done"}) =>
        LET n == Len(cohIn.coefs)
            n_times == Len(cohIn.coefs[1])
            d == cohIn.decim
        IN  /\ cohK <= n
            /\ \A t \in 1..Len(accPsd) :
                  accPsd[t] = SumSq(cohIn.coefs, cohK, (t - 1) * d + 1)
            /\ cohPc = "done" =>
                  /\ cohK = n
                  /\ Len(cohOut.psd) * d >= n_times
                  /\ (Len(cohOut.psd) - 1) * d < n_times
                  /\ \A t \in 1..Len(cohOut.psd) :
                        /\ cohOut.psd[t].den = n
                        /\ cohOut.psd[t].num = SumSq(cohIn.coefs, n, (t - 1) * d + 1)
                        /\ cohOut.psd[t].num >= 0

C25_Witness ==
    /\ cohPc = "done"
    /\ cohIn.engine = "wavelet"
    /\ cohIn.decim = 2
    /\ cohIn.coefs = << <<Cx(1, 0), Cx(0, 2)>>, <<Cx(0, 2), Cx(-1, 0)>> >>
    /\ cohOut.psd = <<Mean(5, 2)>>

\* C29: in the Stockwell engine the power returned for a channel is the
\* same whether or not coherence is requested: the power of the call made
\* equals the power of the call on the same input with compute_itc
\* negated, and it is the mean over trials of the squared magnitudes of the
\* coefficients as they were before the in-place normalisation.
C29_PowerIgnoresItcFlag ==
    (cohIn.engine = "stockwell" /\ cohPc = "done") =>
        /\ cohOut.psd = st_power_itc(cohIn.coefs, cohIn.zero_pad, cohIn.decim,
                                     ~cohIn.compute_itc).psd
        /\ \A t \in 1..Len(cohOut.psd) :
              cohOut.psd[t] = Mean(SumSq(cohIn.coefs, Len(cohIn.coefs),
                                         (t - 1) * cohIn.decim + 1),
                                   Len(cohIn.coefs))

C29_Witness ==
    /\ cohPc = "done"
    /\ cohIn.engine = "stockwell"
    /\ cohIn.compute_itc
    /\ cohIn.decim = 1
    /\ cohIn.coefs = << <<Cx(0, 2), Cx(0, 0), Cx(1, 0)>>, <<Cx(0, 2), Cx(1, 0), Cx(1, 0)>> >>
    /\ cohOut.psd = <<Mean(8, 2), Mean(1, 2)>>
    /\ cohOut.plf[2].nan

\* the heap cells instance o of the instances os refers to
CellsOf(os, o) == {os[o].info, os[o].data, os[o].times, os[o].freqs}

\* every field but data
FrameOf(f) == [info |-> f.info, times |-> f.times, freqs |-> f.freqs,
               nave |-> f.nave, comment |-> f.comment, method |-> f.method]

\* C27: A + B and A - B return a new container, on storage of its own, and
\* leave every field of A, of B and of every other container unchanged;
\* A += B and A -= B return A itself, change at most A's data and leave
\* every other container (B, when it is not A) and A's other fields
\* unchanged; the result of each carries the left operand's times, freqs,
\* info, nave, comment and method; a call that raises changes nothing.
C27_ArithmeticFrame ==
    [][(nops' = nops + 1 /\ last'.op \in {"add", "sub", "iadd", "isub"}) =>
         LET a == last'.lhs
             out == last'.out
         IN  /\ last'.exc # "none" =>
                   /\ objs' = objs
                   /\ heap' = heap
                   /\ out = 0
             /\ last'.op \in {"add", "sub"} =>
                   /\ \A o \in 1..Len(objs) :
                         FieldsIn(heap', objs', o) = FieldsIn(heap, objs, o)
                   /\ last'.exc = "none" =>
                         /\ out = Len(objs) + 1
                         /\ Len(objs') = Len(objs) + 1
                         /\ \A o \in 1..Len(objs) :
                               CellsOf(objs', out) \cap CellsOf(objs', o) = {}
                         /\ FrameOf(FieldsIn(heap', objs', out))
                               = FrameOf(FieldsIn(heap, objs, a))
             /\ last'.op \in {"iadd", "isub"} =>
                   /\ objs' = objs
                   /\ \A o \in 1..Len(objs) :
                         o # a => FieldsIn(heap', objs', o) = FieldsIn(heap, objs, o)
                   /\ FrameOf(FieldsIn(heap', objs', a))
                         = FrameOf(FieldsIn(heap, objs, a))
                   /\ last'.exc = "none" => out = a
    ]_vars

C27_Witness ==
    /\ nops = 2
    /\ last.op = "isub"
    /\ last.exc = "none"
    /\ last.out = last.lhs
    /\ prov[last.lhs].kind = "isub"
    /\ \E o \in ObjIds : o # last.lhs /\ prov[o].kind = "add"

\* C28 (as claimed): the power and the coherence container one call of
\* tfr_morlet, tfr_multitaper or tfr_stockwell returns share no mutable
\* storage: an in-place change to the info, times, freqs or data of one of
\* them leaves every field of the other as it was returned.
C28_NoSharedStorage ==
    entPc = "mutated" =>
        LET other == IF entMut.who = "power" THEN "itc" ELSE "power"
        IN  \A f \in ContainerFields : entHeap[entRefs[other][f]].writes = 0

\* the positions of the written list whose container was written under label
WrittenUnder(label) ==
    {i \in 1..Len(ioArg.tfrs) : LabelOf(i - 1, ioArg.tfrs[i].comment) = label}

\* C30 (as claimed): after write_tfrs of a list, every written container is
\* retrievable by its own label (its comment, or its list position when its
\* comment is None): read_tfrs(fname, condition=L) returns the container
\* written under L, and raises ValueError exactly when none was written
\* under L, also when two containers carry the same comment or a comment
\* equal to another container's position.
C30_RetrievableByLabel ==
    (ioOut.exc # "idle" /\ ioOut.single /\ ioOut.cond.given) =>
        LET label == [int |-> ioOut.cond.int, v |-> ioOut.cond.v, s |-> ioOut.cond.s]
        IN  /\ (ioOut.exc = "ValueError") <=> (WrittenUnder(label) = {})
            /\ \A i \in WrittenUnder(label) :
                  /\ ioOut.exc = "none"
                  /\ ioOut.tfrs = <<ioArg.tfrs[i]>>

====
